---- MODULE Spec2Model ----
(***************************************************************************)
(* State-machine model of the chat application: the websocket consumer     *)
(* (chat/consumers.py), the channel-layer room groups it publishes to, the *)
(* message table (chat/models.py) and the HTTP views of chat/views.py that *)
(* read and change it.                                                     *)
(***************************************************************************)
EXTENDS Integers, Sequences, FiniteSets, TLC

\* ------------------------------------------------------------------ bounds
MaxTime == 1        \* clock ticks after the start of a run
MaxMsgs == 2        \* Message ids past the stored rows that a frame may name
MaxFrames == 2      \* inbound websocket frames received during a run
StoreSize == 3      \* rows of a Message table that a run starts from
StoreTime == 2      \* latest created_at of such a row
MaxReactions == 2   \* MessageReaction rows created before requests stop
MaxRooms == 2       \* ChatRoom rows created before requests stop

\* ------------------------------------------------------- program constants
StaleSeconds == 30  \* timedelta(seconds=30) of get_online_users_view
PageSize == 50      \* the [:50] slice of get_messages_view

\* ---------------------------------------------------------------- universe
Users == {"u1", "u2"}
Anon == "anon"                       \* AnonymousUser of an unauthenticated scope
Rooms == {"r1", "r2"}
Sessions == {"s1", "s2"}             \* websocket connections (consumer instances)
NoUser == "nobody"
NoRoom == "noroom"

VARIABLES
    now,            \* timezone.now()
    seed,           \* number of Message rows that exist when the run starts
    participants,   \* ChatRoom.participants: room -> set of users
    messages,       \* the Message table: a set of rows
    nextId,         \* the next fresh primary key (uuid4 never repeats)
    is_online,      \* User.is_online
    last_seen,      \* User.last_seen
    status,         \* per connection: "new", "open", "rejected", "closing", "closed"
    suser,          \* per connection: scope["user"]
    sroom,          \* per connection: url_route room_id
    groups,         \* channel layer: room -> set of connections in chat_<room>
    pc,             \* per connection: position inside the running handler
    loc,            \* per connection: the locals of the running receive()
    outcome,        \* per connection: how its last receive() ended
    inbox,          \* per connection: group events waiting to be dispatched
    out,            \* per connection: frames sent to the client socket
    nframes,        \* inbound frames received so far
    published,      \* log of group_send calls carrying a chat_message event
    resp,           \* the last HTTP response
    client,         \* a polling client of get_messages_view
    reactions,      \* the MessageReaction table: a set of rows
    nextReactionId, \* the next primary key of MessageReaction (AutoField)
    req,            \* per HTTP request in flight: position and locals of the view
    reads,          \* the MessageRead table: a set of rows
    mreq,           \* per mark-read request in flight: position and locals
    chatrooms,      \* the ChatRoom rows created by start_chat_view
    nextRoomId,     \* the number of the next fresh ChatRoom key (uuid4)
    sreq,           \* per start-chat request in flight: position and locals
    hreq            \* per request of the other views in flight: position, locals

vars == <<now, seed, participants, messages, nextId, is_online, last_seen,
          status, suser, sroom, groups, pc, loc, outcome, inbox, out,
          nframes, published, resp, client, reactions, nextReactionId, req,
          reads, mreq, chatrooms, nextRoomId, sreq, hreq>>

dbVars == <<participants, messages, nextId>>
presenceVars == <<is_online, last_seen>>
connVars == <<status, suser, sroom, groups>>
handlerVars == <<pc, loc, outcome>>
queueVars == <<inbox, out>>
reactVars == <<reactions, nextReactionId, req>>
readVars == <<reads, mreq>>
roomVars == <<chatrooms, nextRoomId, sreq>>

\* ---------------------------------------------------------------- helpers
Min(a, b) == IF a <= b THEN a ELSE b

Reverse(s) == [i \in 1..Len(s) |-> s[Len(s) + 1 - i]]

Take(s, n) == SubSeq(s, 1, Min(n, Len(s)))

\* text content is a sequence of characters; " " is the only whitespace used
Blank == " "

RECURSIVE LStrip(_)
LStrip(s) == IF s # <<>> /\ Head(s) = Blank THEN LStrip(Tail(s)) ELSE s

RECURSIVE RStrip(_)
RStrip(s) ==
    IF s # <<>> /\ s[Len(s)] = Blank THEN RStrip(SubSeq(s, 1, Len(s) - 1)) ELSE s

\* (mutant) str.lstrip()
Strip_left(s) == LStrip(s)
\* str.strip()
Strip(s) == RStrip(LStrip(s))

\* ------------------------------------------------------------- the tables
\* a Message row (chat/models.py); id 0 is no row
NoMsg == [id |-> 0, chat_room |-> NoRoom, sender |-> NoUser,
          message_type |-> "text", content |-> <<>>, created_at |-> 0]

\* Message.objects.create(...): the primary key is fresh and created_at is
\* auto_now_add, the clock at the time of the insert
NewMessage(room, sender, mtype, content) ==
    [id |-> nextId, chat_room |-> room, sender |-> sender,
     message_type |-> mtype, content |-> content, created_at |-> now]

\* (mutant) the membership query answers yes for every user
user_in_room_skip(u, r) == TRUE
\* ChatRoom.objects.filter(id=room_id, participants__id=user_id).exists()
user_in_room(u, r) == r \in Rooms /\ u \in participants[r]

\* Message.objects.get(id=message_id), None when no row has that key
get_message_by_id(mid) ==
    IF \E m \in messages : m.id = mid
    THEN CHOOSE m \in messages : m.id = mid
    ELSE NoMsg

\* MessageReaction rows; two of REACTION_TYPES
Kinds == {"like", "heart"}

NoReaction == [id |-> 0, message |-> 0, user |-> NoUser, reaction |-> "none"]

\* on_delete=CASCADE: the reactions left when the messages mids are deleted
Cascade(mids) == {x \in reactions : x.message \notin mids}

\* on_delete=CASCADE: the read receipts left when the messages mids are deleted
CascadeReads(mids) == {x \in reads : x.message \notin mids}

\* HTTP requests in flight
Requests == {"q1", "q2"}
OneRequest == "q1"
OtherRequest == "q2"

\* a mark-read request that is not running
NoMark == [pc |-> "idle", view |-> "none", user |-> NoUser, room |-> NoRoom,
           pending |-> <<>>, total |-> 0, result |-> "none"]

NoReq == [pc |-> "idle", user |-> NoUser, target |-> 0, room |-> NoRoom,
          reaction |-> "none", existing |-> NoReaction, result |-> "none"]

\* the rows of a set with the least created_at
Earliest(S) == {m \in S : \A x \in S : m.created_at <= x.created_at}

\* order_by('created_at'): every sequence of the rows of S in which created_at
\* never decreases; the database is free in how it orders equal created_at
RECURSIVE Orders(_)
Orders(S) ==
    IF S = {} THEN {<<>>}
    ELSE UNION {{<<m>> \o o : o \in Orders(S \ {m})} : m \in Earliest(S)}

\* order_by('-created_at')
DescOrders(S) == {Reverse(o) : o \in Orders(S)}

\* ------------------------------------------------------ timestamps on the wire
\* datetime.isoformat(): the text of a timestamp
IsoFormat(t) == [kind |-> "iso", t |-> t]
\* request.GET.get('last_time') when the parameter is missing or empty
NoCursor == [kind |-> "absent", t |-> 0]
\* text that parse_datetime does not match (it returns None)
Garbage == [kind |-> "garbage", t |-> 0]
\* text that looks like a timestamp but names no date (parse_datetime raises)
BadDate == [kind |-> "baddate", t |-> 0]

\* django.utils.dateparse.parse_datetime
ParseOutcome(text) ==
    CASE text.kind = "iso" -> [result |-> "value", t |-> text.t]
      [] text.kind = "baddate" -> [result |-> "raises", t |-> 0]
      [] OTHER -> [result |-> "none", t |-> 0]

\* ------------------------------------------------------------ channel layer
\* the payload of a chat_message event built from a Message row; the text
\* branch and the media branch of receive() build different dictionaries
MessagePayload(m, shape) ==
    [id |-> m.id, content |-> m.content, message_type |-> m.message_type,
     sender |-> m.sender, created_at |-> IsoFormat(m.created_at),
     shape |-> shape]

ChatMessageEvent(m, shape) ==
    [type |-> "chat_message", message |-> MessagePayload(m, shape),
     user |-> NoUser, is_typing |-> FALSE]

TypingEvent(u, flag) ==
    [type |-> "typing_indicator", message |-> MessagePayload(NoMsg, "none"),
     user |-> u, is_typing |-> flag]

\* (mutant) the event jumps the queue of each connection
GroupSend_front(room, event) ==
    [s \in Sessions |->
        IF s \in groups[room] THEN <<event>> \o inbox[s] ELSE inbox[s]]
\* channel_layer.group_send(chat_<room>, event): one copy of the event for
\* every connection that is in the group now
GroupSend(room, event) ==
    [s \in Sessions |->
        IF s \in groups[room] THEN Append(inbox[s], event) ELSE inbox[s]]

\* ------------------------------------------------------------ inbound frames
NoLocals == [content |-> <<>>, message |-> NoMsg, message_id |-> 0,
             is_typing |-> FALSE]

InvalidJson == [json |-> "invalid", type |-> "absent", content |-> <<>>,
                message_id |-> 0, is_typing |-> FALSE]

\* text that is JSON but not an object, such as [] or 5
ArrayJson == [json |-> "array", type |-> "absent", content |-> <<>>,
              message_id |-> 0, is_typing |-> FALSE]

\* a message_id that is not the text of a UUID
NotUuid == -1

JsonObject(type, content, mid, flag) ==
    [json |-> "object", type |-> type, content |-> content,
     message_id |-> mid, is_typing |-> flag]

\* message ids a media_uploaded frame may name: none (0), existing rows and
\* keys that resolve to nothing
MediaIds == {0} \cup {i \in (seed - 1)..(seed + MaxMsgs + 1) : i > 0}

\* {"type": "text", "content": " a"}
TextFrames == {JsonObject("text", <<" ", "a">>, 0, FALSE)}
\* {"type": "media_uploaded", "message_id": i}
MediaFrames == {JsonObject("media_uploaded", <<>>, i, FALSE) : i \in MediaIds}
\* {"type": "typing", "is_typing": true}
TypingFrames == {JsonObject("typing", <<>>, 0, TRUE)}

\* data.get('type', 'text')
MessageTypeOf(f) == IF f.type = "absent" THEN "text" ELSE f.type

\* ------------------------------------------------------------------ presence
\* User.objects.filter(id=self.user.id).update(is_online=..., last_seen=now);
\* an anonymous user has no row
update_user_online_status(u, flag) ==
    /\ is_online' = [x \in Users |-> IF x = u THEN flag ELSE is_online[x]]
    /\ last_seen' = [x \in Users |-> IF x = u THEN now ELSE last_seen[x]]

\* ------------------------------------------------------ ChatConsumer.connect
\* scope user u opens a websocket to room r on connection s; lines 12-23:
\* the anonymous user and the membership query
Connect(s, u, r) ==
    /\ status[s] = "new"
    /\ pc[s] = "idle"
    /\ suser' = [suser EXCEPT ![s] = u]
    /\ sroom' = [sroom EXCEPT ![s] = r]
    /\ IF u = Anon \/ ~user_in_room(u, r)
       THEN \* self.close(); return
            /\ status' = [status EXCEPT ![s] = "rejected"]
            /\ UNCHANGED pc
       ELSE /\ pc' = [pc EXCEPT ![s] = "group_add"]
            /\ UNCHANGED status
    /\ UNCHANGED <<now, seed, dbVars, presenceVars, groups, loc, outcome,
                   queueVars, nframes, published, resp, client, reactVars,
                   readVars, roomVars, hreq>>

\* lines 26-30: channel_layer.group_add; the channel is sent the events of
\* the group from here on, and they wait until connect() has returned
ConnectJoin(s) ==
    /\ pc[s] = "group_add"
    /\ groups' = [groups EXCEPT ![sroom[s]] = @ \cup {s}]
    /\ pc' = [pc EXCEPT ![s] = "accept"]
    /\ UNCHANGED <<now, seed, dbVars, presenceVars, status, suser, sroom, loc,
                   outcome, queueVars, nframes, published, resp, client,
                   reactVars, readVars, roomVars, hreq>>

\* line 32: self.accept()
ConnectAccept(s) ==
    /\ pc[s] = "accept"
    /\ status' = [status EXCEPT ![s] = "open"]
    /\ pc' = [pc EXCEPT ![s] = "set_online"]
    /\ UNCHANGED <<now, seed, dbVars, presenceVars, suser, sroom, groups, loc,
                   outcome, queueVars, nframes, published, resp, client,
                   reactVars, readVars, roomVars, hreq>>

\* lines 34-35: update_user_online_status(True)
ConnectOnline(s) ==
    /\ pc[s] = "set_online"
    /\ update_user_online_status(suser[s], TRUE)
    /\ pc' = [pc EXCEPT ![s] = "idle"]
    /\ UNCHANGED <<now, seed, dbVars, connVars, loc, outcome, queueVars,
                   nframes, published, resp, client, reactVars, readVars,
                   roomVars, hreq>>

\* --------------------------------------------------- ChatConsumer.disconnect
\* runs when the socket closes, also after connect() refused the connection;
\* the consumer instance and its channel are gone afterwards: events still
\* queued for it are never dispatched. Lines 39-42: group_discard
Disconnect(s) ==
    /\ status[s] \in {"open", "rejected"}
    /\ pc[s] = "idle"
    /\ groups' = [r \in Rooms |-> groups[r] \ {s}]
    /\ status' = [status EXCEPT ![s] = IF @ = "open" THEN "closing" ELSE @]
    /\ pc' = [pc EXCEPT ![s] = "set_offline"]
    /\ inbox' = [inbox EXCEPT ![s] = <<>>]
    /\ UNCHANGED <<now, seed, dbVars, presenceVars, suser, sroom, loc, outcome,
                   out, nframes, published, resp, client, reactVars, readVars,
                   roomVars, hreq>>

\* line 45: update_user_online_status(False)
DisconnectOffline(s) ==
    /\ pc[s] = "set_offline"
    /\ update_user_online_status(suser[s], FALSE)
    /\ status' = [status EXCEPT ![s] = "closed"]
    /\ pc' = [pc EXCEPT ![s] = "idle"]
    /\ UNCHANGED <<now, seed, dbVars, suser, sroom, groups, loc, outcome,
                   queueVars, nframes, published, resp, client, reactVars,
                   readVars, roomVars, hreq>>

\* ------------------------------------------------------ ChatConsumer.receive
\* the handler returns without doing anything further
Return(s, how) ==
    /\ pc' = [pc EXCEPT ![s] = "idle"]
    /\ loc' = [loc EXCEPT ![s] = NoLocals]
    /\ outcome' = [outcome EXCEPT ![s] = how]

\* an exception leaves receive(): the consumer instance ends and the server
\* closes the socket; disconnect() is not run, so the channel stays in its
\* group and the user row is not touched
Raises(s, raised) ==
    status' = IF raised THEN [status EXCEPT ![s] = "crashed"] ELSE status

\* the handler goes on to its next await with these locals
Goto(s, label, locals) ==
    /\ pc' = [pc EXCEPT ![s] = label]
    /\ loc' = [loc EXCEPT ![s] = locals]
    /\ outcome' = [outcome EXCEPT ![s] = "running"]

\* lines 47-68 and the heads of the three branches: decode the frame, check
\* membership, pick the branch
ReceiveBegin(s, f) ==
    /\ status[s] = "open"
    /\ pc[s] = "idle"
    /\ nframes < MaxFrames
    /\ nframes' = nframes + 1
    /\ LET message_type == MessageTypeOf(f)
           content == Strip(f.content)
       IN  IF f.json = "invalid" THEN Return(s, "invalid_json")
           ELSE IF f.json # "object" THEN Return(s, "crashed")
           ELSE IF ~user_in_room(suser[s], sroom[s]) THEN Return(s, "unauthorized")
           ELSE IF message_type = "text" THEN
                IF content = <<>> THEN Return(s, "empty")
                ELSE Goto(s, "save", [NoLocals EXCEPT !.content = content])
           ELSE IF message_type = "media_uploaded" THEN
                IF f.message_id = 0 THEN Return(s, "no_message_id")
                ELSE Goto(s, "fetch", [NoLocals EXCEPT !.message_id = f.message_id])
           ELSE IF message_type = "typing" THEN
                Goto(s, "send_typing", [NoLocals EXCEPT !.is_typing = f.is_typing])
           ELSE Return(s, "ignored")
    /\ Raises(s, f.json \notin {"invalid", "object"})
    /\ UNCHANGED <<now, seed, dbVars, presenceVars, suser, sroom, groups,
                   queueVars, published, resp, client, reactVars, readVars,
                   roomVars, hreq>>

\* ChatConsumer.save_message succeeds: one new row
save_message(s) ==
    /\ LET message == NewMessage(sroom[s], suser[s], "text", loc[s].content)
       IN  /\ messages' = messages \cup {message}
           /\ nextId' = nextId + 1
           /\ Goto(s, "send_text", [NoLocals EXCEPT !.message = message])

SaveMessage(s) ==
    /\ pc[s] = "save"
    /\ save_message(s)
    /\ UNCHANGED <<now, seed, participants, presenceVars, connVars, queueVars,
                   nframes, published, resp, client, reactVars, readVars,
                   roomVars, hreq>>

\* (mutant) the failure is swallowed and the unsaved message is sent on
SaveFailsThenSends(s) ==
    /\ pc[s] = "save"
    /\ Goto(s, "send_text",
            [NoLocals EXCEPT !.message =
                NewMessage(sroom[s], suser[s], "text", loc[s].content)])
    /\ UNCHANGED <<now, seed, dbVars, presenceVars, connVars, queueVars,
                   nframes, published, resp, client, reactVars, readVars,
                   roomVars, hreq>>

\* ChatConsumer.save_message raises (the store fails): except Exception, return
SaveFails(s) ==
    /\ pc[s] = "save"
    /\ Return(s, "error")
    /\ UNCHANGED <<now, seed, dbVars, presenceVars, connVars, queueVars,
                   nframes, published, resp, client, reactVars, readVars,
                   roomVars, hreq>>

\* the record of one group_send of a chat_message event
Publication(s, m) ==
    [id |-> m.id, created_at |-> m.created_at, room |-> sroom[s], by |-> s,
     subscribers |-> groups[sroom[s]]]

\* lines 76-95: group_send of the saved message
GroupSendText(s) ==
    /\ pc[s] = "send_text"
    /\ inbox' = GroupSend(sroom[s], ChatMessageEvent(loc[s].message, "text"))
    /\ published' = Append(published, Publication(s, loc[s].message))
    /\ Return(s, "broadcast")
    /\ UNCHANGED <<now, seed, dbVars, presenceVars, connVars, out, nframes,
                   resp, client, reactVars, readVars,
                   roomVars, hreq>>

\* lines 102-105: get_message_by_id; the lookup of a key that is not a
\* UUID raises ValidationError, which only Message.DoesNotExist would stop
FetchMessage(s) ==
    /\ pc[s] = "fetch"
    /\ LET message == get_message_by_id(loc[s].message_id)
       IN  IF loc[s].message_id = NotUuid THEN Return(s, "crashed")
           ELSE IF message.id = 0 THEN Return(s, "dropped")
           ELSE Goto(s, "send_media", [NoLocals EXCEPT !.message = message])
    /\ Raises(s, loc[s].message_id = NotUuid)
    /\ UNCHANGED <<now, seed, dbVars, presenceVars, suser, sroom, groups,
                   queueVars, nframes, published, resp, client, reactVars,
                   readVars,
                   roomVars, hreq>>

\* lines 106-127: group_send of the fetched message
GroupSendMedia(s) ==
    /\ pc[s] = "send_media"
    /\ inbox' = GroupSend(sroom[s], ChatMessageEvent(loc[s].message, "media"))
    /\ published' = Append(published, Publication(s, loc[s].message))
    /\ Return(s, "broadcast")
    /\ UNCHANGED <<now, seed, dbVars, presenceVars, connVars, out, nframes,
                   resp, client, reactVars, readVars,
                   roomVars, hreq>>

\* lines 128-141: group_send of the typing indicator
GroupSendTyping(s) ==
    /\ pc[s] = "send_typing"
    /\ inbox' = GroupSend(sroom[s], TypingEvent(suser[s], loc[s].is_typing))
    /\ Return(s, "broadcast")
    /\ UNCHANGED <<now, seed, dbVars, presenceVars, connVars, out, nframes,
                   published, resp, client, reactVars, readVars,
                   roomVars, hreq>>

\* ------------------------------- ChatConsumer.chat_message, typing_indicator
MessageFrame(event) ==
    [type |-> "message", message |-> event.message, user |-> NoUser,
     is_typing |-> FALSE]

TypingFrame(event) ==
    [type |-> "typing", message |-> event.message, user |-> event.user,
     is_typing |-> event.is_typing]

\* (mutant) the typing indicator is echoed to everyone
typing_echo_all(s, event) == TRUE
\* the test of typing_indicator: is the event sent on to this connection
typing_passes(s, event) == event.user # suser[s]

\* (mutant) a connection is not sent the messages of its own user
FramesFor_skip_own(s, event) ==
    IF event.type = "chat_message"
    THEN IF event.message.sender = suser[s] THEN <<>> ELSE <<MessageFrame(event)>>
    ELSE IF event.user # suser[s] THEN <<TypingFrame(event)>>
    ELSE <<>>

\* what the handler of a group event sends to the socket
FramesFor(s, event) ==
    IF event.type = "chat_message" THEN <<MessageFrame(event)>>
    ELSE IF typing_passes(s, event) THEN <<TypingFrame(event)>>
    ELSE <<>>

\* the consumer dispatches the next queued group event to its handler
Deliver(s) ==
    /\ status[s] = "open"
    /\ pc[s] = "idle"
    /\ inbox[s] # <<>>
    /\ out' = [out EXCEPT ![s] = @ \o FramesFor(s, Head(inbox[s]))]
    /\ inbox' = [inbox EXCEPT ![s] = Tail(@)]
    /\ UNCHANGED <<now, seed, dbVars, presenceVars, connVars, handlerVars,
                   nframes, published, resp, client, reactVars, readVars,
                   roomVars, hreq>>

\* ------------------------------------------------------------- environment
\* time passes
Tick ==
    /\ now < seed + MaxTime
    /\ now' = now + 1
    /\ UNCHANGED <<seed, dbVars, presenceVars, connVars, handlerVars, queueVars,
                   nframes, published, resp, client, reactVars, readVars,
                   roomVars, hreq>>

\* a user is removed from a room (ChatRoom.participants.remove)
Revoke(u, r) ==
    /\ u \in participants[r]
    /\ participants' = [participants EXCEPT ![r] = @ \ {u}]
    /\ UNCHANGED <<now, seed, messages, nextId, presenceVars, connVars,
                   handlerVars, queueVars, nframes, published, resp, client,
                   reactVars, readVars,
                   roomVars, hreq>>

\* ------------------------------------------------------------ HTTP responses
NoResp == [view |-> "none", user |-> NoUser, room |-> NoRoom, target |-> 0,
           cursor |-> NoCursor, success |-> FALSE, error |-> "", messages |-> <<>>,
           action |-> "", online_users |-> {}, users |-> {}, deleted_count |-> 0,
           marked_count |-> 0]

\* a request of get_messages_view, get_online_users_view, a delete view, a
\* view that creates a message or a view that saves the user row, that is
\* not running; row is the copy of the user row that the request holds
NoHttp == [pc |-> "idle", view |-> "none", user |-> NoUser, room |-> NoRoom,
           cursor |-> NoCursor, target |-> 0, ids |-> <<>>, rooms |-> {},
           poll |-> FALSE, row |-> [is_online |-> FALSE, last_seen |-> 0],
           content |-> <<>>, message_type |-> "none"]

\* one element of the 'messages' list of get_messages_view's response
MessageData(m, u) ==
    [id |-> m.id, content |-> m.content, message_type |-> m.message_type,
     sender |-> m.sender, created_at |-> IsoFormat(m.created_at),
     is_own |-> (m.sender = u)]

\* the heartbeat at the head of get_messages_view: is_online, last_seen
touch(u) ==
    /\ is_online' = [is_online EXCEPT ![u] = TRUE]
    /\ last_seen' = [last_seen EXCEPT ![u] = now]

\* (mutant) the page is one row short
PagesAfter_short(room, t) ==
    {Take(o, PageSize - 1) :
        o \in Orders({m \in messages : m.chat_room = room /\ m.created_at > t})}

\* (mutant) created_at__gte
created_at_gte(m, t) == m.created_at >= t
\* filter(created_at__gt=last_time)
created_at_gt(m, t) == m.created_at > t

\* messages_query.order_by('created_at')[:50]
PagesAfter(room, t) ==
    {Take(o, PageSize) :
        o \in Orders({m \in messages : m.chat_room = room /\ created_at_gt(m, t)})}

\* (mutant) the page is not reversed
RecentPages_desc(room) ==
    {Take(d, PageSize) :
        d \in DescOrders({m \in messages : m.chat_room = room})}
\* list(reversed(messages_query.order_by('-created_at')[:50]))
RecentPages(room) ==
    {Reverse(Take(d, PageSize)) :
        d \in DescOrders({m \in messages : m.chat_room = room})}

\* (mutant) a last_time that does not parse selects nothing
SelectMessages_strict(room, last_message_time) ==
    IF last_message_time.kind = "absent" THEN RecentPages(room)
    ELSE LET parsed == ParseOutcome(last_message_time)
         IN  IF parsed.result = "value" THEN PagesAfter(room, parsed.t)
             ELSE {<<>>}
\* lines 660-684: the rows get_messages_view may select, as row sequences
SelectMessages(room, last_message_time) ==
    IF last_message_time.kind = "absent" THEN RecentPages(room)
    ELSE LET parsed == ParseOutcome(last_message_time)
         IN  IF parsed.result = "value" THEN PagesAfter(room, parsed.t)
             ELSE RecentPages(room)

\* what the polling client keeps of a response
ClientAfter(reply) ==
    IF ~reply.success THEN [client EXCEPT !.caught_up = TRUE]
    ELSE IF reply.messages = <<>> THEN [client EXCEPT !.caught_up = TRUE]
    ELSE [client EXCEPT
            !.seen = @ \o [i \in 1..Len(reply.messages) |-> reply.messages[i].id],
            !.cursor = reply.messages[Len(reply.messages)].created_at]

\* the request q returns the response; a poll hands it to the client
HttpEnds(q, reply) ==
    /\ hreq' = [hreq EXCEPT ![q] = NoHttp]
    /\ resp' = reply
    /\ client' = IF hreq[q].poll THEN ClientAfter(reply) ELSE client

\* the request q goes on to its next statement
HttpGoto(q, label) ==
    /\ hreq' = [hreq EXCEPT ![q].pc = label]
    /\ UNCHANGED <<resp, client>>

\* the successful response of get_messages_view
GetMessagesResponse(u, r, cursor, rows) ==
    [NoResp EXCEPT !.view = "get_messages", !.user = u, !.room = r,
                   !.cursor = cursor, !.success = TRUE,
                   !.messages = [i \in 1..Len(rows) |-> MessageData(rows[i], u)]]

\* an error response of get_messages_view
GetMessagesRefusal(u, r, cursor, text) ==
    [NoResp EXCEPT !.view = "get_messages", !.user = u, !.room = r,
                   !.cursor = cursor, !.error = text]

\* lines 650-652 of get_messages_view: the heartbeat is saved
GetMessagesBegin(q, u, r, cursor, poll) ==
    /\ hreq[q].pc = "idle"
    /\ touch(u)
    /\ hreq' = [hreq EXCEPT ![q] =
                  [NoHttp EXCEPT !.pc = "check", !.view = "get_messages",
                                 !.user = u, !.room = r, !.cursor = cursor,
                                 !.poll = poll]]
    /\ UNCHANGED <<now, seed, dbVars, connVars, handlerVars, queueVars, nframes,
                   published, resp, client, reactVars, readVars, roomVars>>

\* get_messages_view(request, room_id) with ?last_time=cursor
GetMessagesView(q, u, r, cursor) == GetMessagesBegin(q, u, r, cursor, FALSE)

\* lines 655-657: get_object_or_404 (the Http404 is caught by the view's
\* except Exception) and the participant check
GetMessagesCheck(q) ==
    /\ hreq[q].pc = "check" /\ hreq[q].view = "get_messages"
    /\ LET h == hreq[q]
       IN  IF h.room \notin Rooms
           THEN HttpEnds(q, GetMessagesRefusal(h.user, h.room, h.cursor,
                                "No ChatRoom matches the given query."))
           ELSE IF ~(h.user \in participants[h.room])
           THEN HttpEnds(q, GetMessagesRefusal(h.user, h.room, h.cursor,
                                               "Not authorized"))
           ELSE HttpGoto(q, "select")
    /\ UNCHANGED <<now, seed, dbVars, presenceVars, connVars, handlerVars,
                   queueVars, nframes, published, reactVars, readVars, roomVars>>

\* lines 660-721: the query of the messages and the response
GetMessagesSelect(q) ==
    /\ hreq[q].pc = "select" /\ hreq[q].view = "get_messages"
    /\ LET h == hreq[q]
       IN  \E rows \in SelectMessages(h.room, h.cursor) :
              HttpEnds(q, GetMessagesResponse(h.user, h.room, h.cursor, rows))
    /\ UNCHANGED <<now, seed, dbVars, presenceVars, connVars, handlerVars,
                   queueVars, nframes, published, reactVars, readVars, roomVars>>

\* Message.objects ... sender=request.user
sent_by(m, u) == m.sender = u

\* the rows of these messages are deleted, and with them their reactions
\* and read receipts; the number of rows deleted in all
DeleteRows(found) ==
    LET mids == {m.id : m \in found}
    IN  /\ messages' = messages \ found
        /\ reactions' = Cascade(mids)
        /\ reads' = CascadeReads(mids)

DeletedCount(found) ==
    LET mids == {m.id : m \in found}
    IN  Cardinality(found) + Cardinality(reactions \ Cascade(mids))
            + Cardinality(reads \ CascadeReads(mids))

\* delete_message_view(request, message_id) with method DELETE, line 403:
\* Message.objects.get(id=message_id, sender=request.user)
DeleteMessageView(q, u, mid) ==
    /\ hreq[q].pc = "idle"
    /\ LET found == {m \in messages : m.id = mid /\ sent_by(m, u)}
           reply == [NoResp EXCEPT !.view = "delete_message", !.user = u,
                                   !.target = mid]
       IN  IF found = {}
           THEN HttpEnds(q, [reply EXCEPT !.error = "Message not found"])
           ELSE /\ hreq' = [hreq EXCEPT ![q] =
                      [NoHttp EXCEPT !.pc = "check", !.view = "delete_message",
                                     !.user = u, !.target = mid,
                                     !.room = (CHOOSE m \in found : TRUE).chat_room]]
                /\ UNCHANGED <<resp, client>>
    /\ UNCHANGED <<messages, reactions, reads>>
    /\ UNCHANGED <<now, seed, participants, nextId, presenceVars, connVars,
                   handlerVars, queueVars, nframes, published, nextReactionId,
                   req, mreq, roomVars>>

\* lines 404-408: message.chat_room and the participant check
DeleteMessageCheck(q) ==
    /\ hreq[q].pc = "check" /\ hreq[q].view = "delete_message"
    /\ LET h == hreq[q]
       IN  IF ~user_in_room(h.user, h.room)
           THEN HttpEnds(q, [NoResp EXCEPT !.view = "delete_message",
                                           !.user = h.user, !.target = h.target,
                                           !.error = "Unauthorized"])
           ELSE HttpGoto(q, "delete")
    /\ UNCHANGED <<messages, reactions, reads>>
    /\ UNCHANGED <<now, seed, participants, nextId, presenceVars, connVars,
                   handlerVars, queueVars, nframes, published, nextReactionId,
                   req, mreq, roomVars>>

\* lines 410-411: message.delete(), a DELETE by primary key that deletes
\* nothing and raises nothing when the row is gone already
DeleteMessageDelete(q) ==
    /\ hreq[q].pc = "delete" /\ hreq[q].view = "delete_message"
    /\ LET h == hreq[q]
       IN  /\ DeleteRows({m \in messages : m.id = h.target})
           /\ HttpEnds(q, [NoResp EXCEPT !.view = "delete_message",
                                         !.user = h.user, !.target = h.target,
                                         !.success = TRUE])
    /\ UNCHANGED <<now, seed, participants, nextId, presenceVars, connVars,
                   handlerVars, queueVars, nframes, published, nextReactionId,
                   req, mreq, roomVars>>

\* the body of delete_multiple_messages_view: invalid JSON, or message_ids
InvalidBody == [json |-> "invalid", message_ids |-> <<>>]

BulkBody(ids) == [json |-> "object", message_ids |-> ids]

\* the elements of a list
Elems(l) == {l[i] : i \in 1..Len(l)}

\* line 435: messages.count() != len(message_ids) refuses the request
all_found(found, ids) == Cardinality(found) = Len(ids)

\* filter(id__in=message_ids, sender=request.user)
BulkFound(u, ids) == {m \in messages : m.id \in Elems(ids) /\ sent_by(m, u)}

BulkReply(u) == [NoResp EXCEPT !.view = "delete_multiple", !.user = u]

\* delete_multiple_messages_view(request), POST with the body; lines
\* 423-436: json.loads, the empty list, messages.count()
DeleteMultipleMessagesView(q, u, body) ==
    /\ hreq[q].pc = "idle"
    /\ LET ids == body.message_ids
           refuse(text) == HttpEnds(q, [BulkReply(u) EXCEPT !.error = text])
       IN  IF body.json = "invalid" THEN refuse("Invalid JSON data")
           ELSE IF ids = <<>> THEN refuse("No message IDs provided")
           ELSE IF ~all_found(BulkFound(u, ids), ids)
                THEN refuse("Some messages not found or unauthorized")
           ELSE /\ hreq' = [hreq EXCEPT ![q] =
                      [NoHttp EXCEPT !.pc = "iterate", !.view = "delete_multiple",
                                     !.user = u, !.ids = ids]]
                /\ UNCHANGED <<resp, client>>
    /\ UNCHANGED <<messages, reactions, reads>>
    /\ UNCHANGED <<now, seed, participants, nextId, presenceVars, connVars,
                   handlerVars, queueVars, nframes, published, nextReactionId,
                   req, mreq, roomVars>>

\* line 439: set(message.chat_room for message in messages), the queryset
\* is evaluated
BulkIterate(q) ==
    /\ hreq[q].pc = "iterate"
    /\ LET rooms == {m.chat_room : m \in BulkFound(hreq[q].user, hreq[q].ids)}
       IN  hreq' = [hreq EXCEPT ![q].rooms = rooms,
                                ![q].pc = IF rooms = {} THEN "delete" ELSE "check"]
    /\ UNCHANGED <<messages, reactions, reads, resp, client>>
    /\ UNCHANGED <<now, seed, participants, nextId, presenceVars, connVars,
                   handlerVars, queueVars, nframes, published, nextReactionId,
                   req, mreq, roomVars>>

\* lines 440-442: the participant check of one of the rooms
BulkCheck(q) ==
    /\ hreq[q].pc = "check" /\ hreq[q].view = "delete_multiple"
    /\ \E r \in hreq[q].rooms :
          IF ~user_in_room(hreq[q].user, r)
          THEN HttpEnds(q, [BulkReply(hreq[q].user) EXCEPT
                               !.error = "Unauthorized access to chat room"])
          ELSE /\ hreq' = [hreq EXCEPT
                            ![q].rooms = @ \ {r},
                            ![q].pc = IF hreq[q].rooms = {r} THEN "delete" ELSE "check"]
               /\ UNCHANGED <<resp, client>>
    /\ UNCHANGED <<messages, reactions, reads>>
    /\ UNCHANGED <<now, seed, participants, nextId, presenceVars, connVars,
                   handlerVars, queueVars, nframes, published, nextReactionId,
                   req, mreq, roomVars>>

\* line 445: messages.delete(), which runs the filter again
BulkDelete(q) ==
    /\ hreq[q].pc = "delete" /\ hreq[q].view = "delete_multiple"
    /\ LET found == BulkFound(hreq[q].user, hreq[q].ids)
       IN  /\ DeleteRows(found)
           /\ HttpEnds(q, [BulkReply(hreq[q].user) EXCEPT
                              !.success = TRUE,
                              !.deleted_count = DeletedCount(found)])
    /\ UNCHANGED <<now, seed, participants, nextId, presenceVars, connVars,
                   handlerVars, queueVars, nframes, published, nextReactionId,
                   req, mreq, roomVars>>

\* ------------------------------------------------- react_to_message_view
\* the request q ends with the result and the response
ReactEnds(q, result, ok, text) ==
    /\ req' = [req EXCEPT ![q] = [NoReq EXCEPT !.result = result]]
    /\ resp' = [NoResp EXCEPT !.view = "react", !.user = req[q].user,
                              !.target = req[q].target, !.success = ok,
                              !.action = IF ok THEN result ELSE "",
                              !.error = text]

\* lines 491-495: json.loads and Message.objects.get; message.chat_room is
\* the room of the row as it was read
ReactBegin(q, u, mid, kind) ==
    /\ req[q].pc = "idle"
    /\ nextReactionId <= MaxReactions
    /\ LET found == {m \in messages : m.id = mid}
           begun == [NoReq EXCEPT !.user = u, !.target = mid, !.reaction = kind]
           refuse(result, text) ==
               /\ req' = [req EXCEPT ![q] = [NoReq EXCEPT !.result = result]]
               /\ resp' = [NoResp EXCEPT !.view = "react", !.user = u,
                                         !.target = mid, !.error = text]
       IN  IF kind = "invalid" THEN refuse("invalid_json", "Invalid JSON")
           ELSE IF found = {} THEN refuse("not_found", "Message not found")
           ELSE /\ req' = [req EXCEPT ![q] =
                             [begun EXCEPT
                                !.pc = "check",
                                !.room = (CHOOSE m \in found : TRUE).chat_room]]
                /\ UNCHANGED resp
    /\ UNCHANGED <<now, seed, dbVars, presenceVars, connVars, handlerVars,
                   queueVars, nframes, published, client, reactions,
                   nextReactionId, readVars,
                   roomVars, hreq>>

\* lines 497-499: the participant check, on the room of the row read
ReactCheck(q) ==
    /\ req[q].pc = "check"
    /\ IF ~user_in_room(req[q].user, req[q].room)
       THEN ReactEnds(q, "unauthorized", FALSE, "Unauthorized")
       ELSE /\ req' = [req EXCEPT ![q].pc = "read"]
            /\ UNCHANGED resp
    /\ UNCHANGED <<now, seed, dbVars, presenceVars, connVars, handlerVars,
                   queueVars, nframes, published, client, reactions,
                   nextReactionId, readVars,
                   roomVars, hreq>>

\* (mutant) the filter does not ask for the user
ReactionOf_any_user(u, mid) ==
    LET rows == {x \in reactions : x.message = mid}
    IN  IF rows = {} THEN NoReaction ELSE CHOOSE x \in rows : TRUE
\* the reaction of the user on the message, if there is one
ReactionOf(u, mid) ==
    LET rows == {x \in reactions : x.message = mid /\ x.user = u}
    IN  IF rows = {} THEN NoReaction ELSE CHOOSE x \in rows : TRUE

\* lines 501-505: MessageReaction.objects.filter(message, user).first()
ReactRead(q) ==
    /\ req[q].pc = "read"
    /\ req' = [req EXCEPT ![q] = [@ EXCEPT
                  !.pc = "write",
                  !.existing = ReactionOf(req[q].user, req[q].target)]]
    /\ UNCHANGED <<now, seed, dbVars, presenceVars, connVars, handlerVars,
                   queueVars, nframes, published, resp, client, reactions,
                   nextReactionId, readVars,
                   roomVars, hreq>>

\* an INSERT of a row for the pair is refused: unique_together, or the
\* message is gone (foreign key)
InsertRefused(u, mid) ==
    \/ ReactionOf(u, mid) # NoReaction
    \/ ~\E m \in messages : m.id = mid

\* lines 507-524: delete, save or create; an IntegrityError is not caught
ReactWrite(q) ==
    /\ req[q].pc = "write"
    /\ LET r == req[q]
           e == r.existing
           changed == [e EXCEPT !.reaction = r.reaction]
           fails == /\ ReactEnds(q, "integrity_error", FALSE, "IntegrityError")
                    /\ UNCHANGED <<reactions, nextReactionId>>
       IN  IF e = NoReaction
           THEN IF InsertRefused(r.user, r.target) THEN fails
                ELSE /\ reactions' = reactions \cup
                            {[id |-> nextReactionId, message |-> r.target,
                              user |-> r.user, reaction |-> r.reaction]}
                     /\ nextReactionId' = nextReactionId + 1
                     /\ ReactEnds(q, "added", TRUE, "")
           ELSE IF e.reaction = r.reaction
           THEN \* existing_reaction.delete(): DELETE by primary key
                /\ reactions' = {x \in reactions : x.id # e.id}
                /\ UNCHANGED nextReactionId
                /\ ReactEnds(q, "removed", TRUE, "")
           ELSE \* existing_reaction.save(): UPDATE by primary key, and an
                \* INSERT with that key if no row was updated
                IF \E x \in reactions : x.id = e.id
                THEN /\ reactions' = {x \in reactions : x.id # e.id} \cup {changed}
                     /\ UNCHANGED nextReactionId
                     /\ ReactEnds(q, "updated", TRUE, "")
                ELSE IF InsertRefused(r.user, r.target) THEN fails
                ELSE /\ reactions' = reactions \cup {changed}
                     /\ UNCHANGED nextReactionId
                     /\ ReactEnds(q, "updated", TRUE, "")
    /\ UNCHANGED <<now, seed, dbVars, presenceVars, connVars, handlerVars,
                   queueVars, nframes, published, client, readVars,
                   roomVars, hreq>>

\* ------------------------------- mark_messages_read_view, chat_room_view
\* filter(chat_room=...).exclude(sender=user).exclude(read_by__user=user),
\* over the MessageRead table rd
Unread(rd, u, r) ==
    {m \in messages :
        /\ m.chat_room = r
        /\ m.sender # u
        /\ ~\E x \in rd : x.message = m.id /\ x.user = u}

\* the two views that mark the messages of a room as read
MarkViews == {"mark_messages_read", "chat_room"}

\* the request q ends with the result and the response
MarkEnds(q, view, u, r, result, ok, text, count) ==
    /\ mreq' = [mreq EXCEPT ![q] = [NoMark EXCEPT !.result = result]]
    /\ resp' = [NoResp EXCEPT !.view = view, !.user = u, !.room = r,
                              !.success = ok, !.error = text,
                              !.marked_count = count]

\* lines 463-467 and 98-103: the room lookup and the participant check
MarkBegin(q, view, u, r) ==
    /\ mreq[q].pc = "idle"
    /\ IF r \notin Rooms
       THEN MarkEnds(q, view, u, r, "not_found", FALSE,
                     IF view = "chat_room" THEN "Not Found"
                     ELSE "Chat room not found", 0)
       ELSE IF ~(u \in participants[r])
       THEN MarkEnds(q, view, u, r, "unauthorized", FALSE,
                     IF view = "chat_room"
                     THEN "You are not authorized to access this chat."
                     ELSE "Unauthorized", 0)
       ELSE /\ mreq' = [mreq EXCEPT ![q] =
                          [NoMark EXCEPT !.pc = "query", !.view = view,
                                         !.user = u, !.room = r,
                                         !.result = "running"]]
            /\ UNCHANGED resp
    /\ UNCHANGED <<now, seed, dbVars, presenceVars, connVars, handlerVars,
                   queueVars, nframes, published, client, reactVars, reads,
                   roomVars, hreq>>

\* where the request goes once its loop is over: mark_messages_read_view
\* answers with unread_messages.count(), the length of the result cache the
\* loop has walked; chat_room_view goes on to messages_list.exists()
MarkLoopEnds(q, total) ==
    LET r == mreq[q]
    IN  IF r.view = "mark_messages_read"
        THEN MarkEnds(q, r.view, r.user, r.room, "done", TRUE, "", total)
        ELSE /\ mreq' = [mreq EXCEPT ![q] = [@ EXCEPT !.pc = "exists",
                                                      !.pending = <<>>]]
             /\ UNCHANGED resp

\* lines 477 and 112: the for statement runs the query of the unread
\* messages, which the loop walks in the order of created_at
MarkQuery(q) ==
    /\ mreq[q].pc = "query"
    /\ LET r == mreq[q]
       IN  IF Unread(reads, r.user, r.room) = {}
           THEN MarkLoopEnds(q, 0)
           ELSE \E o \in Orders(Unread(reads, r.user, r.room)) :
                  /\ mreq' = [mreq EXCEPT ![q] =
                                [r EXCEPT !.pc = "mark",
                                          !.pending = [i \in 1..Len(o) |-> o[i].id],
                                          !.total = Len(o)]]
                  /\ UNCHANGED resp
    /\ UNCHANGED <<now, seed, dbVars, presenceVars, connVars, handlerVars,
                   queueVars, nframes, published, client, reactVars, reads,
                   roomVars, hreq>>

\* (mutant) update_or_create: the receipt is stamped again
get_or_create_restamps(mid, u) ==
    {x \in reads : ~(x.message = mid /\ x.user = u)}
        \cup {[message |-> mid, user |-> u, read_at |-> now]}
\* MessageRead.objects.get_or_create(message, user): the table afterwards;
\* read_at is auto_now_add. The call gets the row, creates it if there is
\* none, and gets it again if the create runs into unique_together
get_or_create(mid, u) ==
    IF \E x \in reads : x.message = mid /\ x.user = u THEN reads
    ELSE reads \cup {[message |-> mid, user |-> u, read_at |-> now]}

\* one turn of the loop, lines 478 and 113: get_or_create for the next
\* unread message
MarkOne(q) ==
    /\ mreq[q].pc = "mark"
    /\ LET r == mreq[q]
           mid == Head(r.pending)
           had == \E x \in reads : x.message = mid /\ x.user = r.user
           gone == ~\E m \in messages : m.id = mid
       IN  IF ~had /\ gone
           THEN \* the foreign key refuses the INSERT: IntegrityError
                /\ MarkEnds(q, r.view, r.user, r.room, "integrity_error",
                            FALSE, "IntegrityError", 0)
                /\ UNCHANGED reads
           ELSE /\ reads' = get_or_create(mid, r.user)
                /\ IF Tail(r.pending) = <<>>
                   THEN MarkLoopEnds(q, r.total)
                   ELSE /\ mreq' = [mreq EXCEPT ![q].pending = Tail(@)]
                        /\ UNCHANGED resp
    /\ UNCHANGED <<now, seed, dbVars, presenceVars, connVars, handlerVars,
                   queueVars, nframes, published, client, reactVars,
                   roomVars, hreq>>

\* chat_room_view line 122: messages_list.exists()
MarkExists(q) ==
    /\ mreq[q].pc = "exists"
    /\ LET r == mreq[q]
       IN  IF \E m \in messages : m.chat_room = r.room
           THEN /\ mreq' = [mreq EXCEPT ![q].pc = "last"]
                /\ UNCHANGED resp
           ELSE MarkEnds(q, r.view, r.user, r.room, "done", TRUE, "", 0)
    /\ UNCHANGED <<now, seed, dbVars, presenceVars, connVars, handlerVars,
                   queueVars, nframes, published, client, reactVars, reads,
                   roomVars, hreq>>

\* chat_room_view line 123: messages_list.last().created_at; last() of a
\* room that holds no row any more is None: AttributeError, not caught
MarkLast(q) ==
    /\ mreq[q].pc = "last"
    /\ LET r == mreq[q]
       IN  IF \E m \in messages : m.chat_room = r.room
           THEN MarkEnds(q, r.view, r.user, r.room, "done", TRUE, "", 0)
           ELSE MarkEnds(q, r.view, r.user, r.room, "attribute_error", FALSE,
                         "AttributeError", 0)
    /\ UNCHANGED <<now, seed, dbVars, presenceVars, connVars, handlerVars,
                   queueVars, nframes, published, client, reactVars, reads,
                   roomVars, hreq>>

\* ------------------------------------------------------- send_message_view
\* send_message_view(request, room_id), POST with the form field content;
\* lines 605-614: the room lookup, the participant check, the content
SendMessageView(q, u, r, text) ==
    /\ hreq[q].pc = "idle"
    /\ nextId <= seed + MaxMsgs
    /\ LET content == Strip(text)
           reply == [NoResp EXCEPT !.view = "send_message", !.user = u, !.room = r]
       IN  IF r \notin Rooms
           THEN HttpEnds(q, [reply EXCEPT
                               !.error = "No ChatRoom matches the given query."])
           ELSE IF ~(u \in participants[r])
           THEN HttpEnds(q, [reply EXCEPT !.error = "Not authorized"])
           ELSE IF content = <<>>
           THEN HttpEnds(q, [reply EXCEPT !.error = "Empty message"])
           ELSE /\ hreq' = [hreq EXCEPT ![q] =
                              [NoHttp EXCEPT !.pc = "create",
                                             !.view = "send_message",
                                             !.user = u, !.room = r,
                                             !.content = content,
                                             !.message_type = "text"]]
                /\ UNCHANGED <<resp, client>>
    /\ UNCHANGED <<now, seed, dbVars, presenceVars, connVars, handlerVars,
                   queueVars, nframes, published, reactVars, readVars,
                   roomVars>>

\* lines 617-640: Message.objects.create and the response
SendCreate(q) ==
    /\ hreq[q].pc = "create" /\ hreq[q].view = "send_message"
    /\ nextId <= seed + MaxMsgs
    /\ LET h == hreq[q]
           message == NewMessage(h.room, h.user, h.message_type, h.content)
       IN  /\ messages' = messages \cup {message}
           /\ nextId' = nextId + 1
           /\ HttpEnds(q, [NoResp EXCEPT
                             !.view = "send_message", !.user = h.user,
                             !.room = h.room, !.success = TRUE,
                             !.target = message.id,
                             !.messages = <<MessageData(message, h.user)>>])
    /\ UNCHANGED <<now, seed, participants, presenceVars, connVars, handlerVars,
                   queueVars, nframes, published, reactVars, readVars,
                   roomVars>>

\* --------------------------------------------------------- upload_file_view
\* the names of the uploaded files, by what their extension stands for
FileNames == {"a.png", "a.txt", "a.exe"}

\* lines 249-266: the message type by file extension, blocked extensions
FileKind(name) ==
    IF name = "a.png" THEN "image" ELSE IF name = "a.exe" THEN "blocked" ELSE "file"

\* the 'message' of upload_file_view's response, lines 292-305
UploadData(m) ==
    [id |-> m.id, content |-> m.content, message_type |-> m.message_type,
     sender |-> m.sender, created_at |-> IsoFormat(m.created_at)]

\* upload_file_view(request), POST with a file of at most 25 MB, room_id and
\* the form field caption; lines 231-267: the room lookup, the participant
\* check, the file type
UploadFileView(q, u, r, name, caption) ==
    /\ hreq[q].pc = "idle"
    /\ nextId <= seed + MaxMsgs
    /\ LET reply == [NoResp EXCEPT !.view = "upload_file", !.user = u, !.room = r]
       IN  IF r \notin Rooms
           THEN HttpEnds(q, [reply EXCEPT !.error = "Chat room not found"])
           ELSE IF ~(u \in participants[r])
           THEN HttpEnds(q, [reply EXCEPT !.error = "Unauthorized"])
           ELSE IF FileKind(name) = "blocked"
           THEN HttpEnds(q, [reply EXCEPT !.error =
                       "This file type is not allowed for security reasons."])
           ELSE /\ hreq' = [hreq EXCEPT ![q] =
                              [NoHttp EXCEPT !.pc = "create",
                                             !.view = "upload_file",
                                             !.user = u, !.room = r,
                                             !.content = caption,
                                             !.message_type = FileKind(name)]]
                /\ UNCHANGED <<resp, client>>
    /\ UNCHANGED <<now, seed, dbVars, presenceVars, connVars, handlerVars,
                   queueVars, nframes, published, reactVars, readVars,
                   roomVars>>

\* lines 280-312: Message.objects.create and the response
UploadCreate(q) ==
    /\ hreq[q].pc = "create" /\ hreq[q].view = "upload_file"
    /\ nextId <= seed + MaxMsgs
    /\ LET h == hreq[q]
           message == NewMessage(h.room, h.user, h.message_type, h.content)
       IN  /\ messages' = messages \cup {message}
           /\ nextId' = nextId + 1
           /\ HttpEnds(q, [NoResp EXCEPT
                             !.view = "upload_file", !.user = h.user,
                             !.room = h.room, !.success = TRUE,
                             !.target = message.id,
                             !.messages = <<UploadData(message)>>])
    /\ UNCHANGED <<now, seed, participants, presenceVars, connVars, handlerVars,
                   queueVars, nframes, published, reactVars, readVars,
                   roomVars>>

\* ---------------------------------------------------------- start_chat_view
\* the keys of the ChatRoom rows created during a run, in order of creation
NewRoomIds == <<"n1", "n2", "n3", "n4">>

NoStart == [pc |-> "idle", user |-> NoUser, other |-> NoUser, room |-> NoRoom]

\* lines 143-148: filter(chat_type='private', participants=request.user)
\* .filter(participants=other_user)
existing_rooms(u, v) ==
    {c \in chatrooms :
        c.chat_type = "private" /\ u \in c.participants /\ v \in c.participants}

\* the redirect that ends the request q
StartEnds(q, u, room, text) ==
    /\ sreq' = [sreq EXCEPT ![q] = NoStart]
    /\ resp' = [NoResp EXCEPT !.view = "start_chat", !.user = u,
                              !.room = room, !.success = (text = ""),
                              !.error = text]

\* lines 136-151: get_object_or_404, the self check, the lookup; first()
\* takes the row with the least key, and the keys are random
StartBegin(q, u, v) ==
    /\ sreq[q].pc = "idle"
    /\ nextRoomId <= MaxRooms
    /\ LET begun == [NoStart EXCEPT !.user = u, !.other = v]
           ends(room, text) == StartEnds(q, u, room, text)
       IN  IF v \notin Users THEN ends(NoRoom, "No User matches the given query.")
           ELSE IF v = u THEN ends(NoRoom, "You cannot start a chat with yourself.")
           ELSE IF existing_rooms(u, v) # {}
                THEN \E c \in existing_rooms(u, v) : ends(c.id, "")
           ELSE /\ sreq' = [sreq EXCEPT ![q] = [begun EXCEPT !.pc = "create"]]
                /\ UNCHANGED resp
    /\ UNCHANGED <<now, seed, dbVars, presenceVars, connVars, handlerVars,
                   queueVars, nframes, published, client, reactVars, readVars,
                   chatrooms, nextRoomId, hreq>>

\* lines 154-157: ChatRoom.objects.create(chat_type='private', created_by=...)
StartCreate(q) ==
    /\ sreq[q].pc = "create"
    /\ LET id == NewRoomIds[nextRoomId]
       IN  /\ chatrooms' = chatrooms \cup
                  {[id |-> id, chat_type |-> "private",
                    created_by |-> sreq[q].user, participants |-> {}]}
           /\ sreq' = [sreq EXCEPT ![q].pc = "add", ![q].room = id]
    /\ nextRoomId' = nextRoomId + 1
    /\ UNCHANGED <<now, seed, dbVars, presenceVars, connVars, handlerVars,
                   queueVars, nframes, published, resp, client, reactVars,
                   readVars, hreq>>

\* lines 158-160: chat_room.participants.add(request.user, other_user) and
\* the redirect to the room
StartAdd(q) ==
    /\ sreq[q].pc = "add"
    /\ chatrooms' =
          {IF c.id = sreq[q].room
              THEN [c EXCEPT !.participants = @ \cup {sreq[q].user, sreq[q].other}]
              ELSE c : c \in chatrooms}
    /\ StartEnds(q, sreq[q].user, sreq[q].room, "")
    /\ UNCHANGED <<now, seed, dbVars, presenceVars, connVars, handlerVars,
                   queueVars, nframes, published, client, reactVars, readVars,
                   nextRoomId, hreq>>

\* ------------------------------------------------------------ presence views
\* last_seen__lt=stale_threshold, stale_threshold = now - 30 s
stale(seen, t) == seen < t - StaleSeconds

\* filter(is_online=True, last_seen__lt=stale_threshold).update(is_online=False)
Sweep(online, seen, t) == [v \in Users |-> online[v] /\ ~stale(seen[v], t)]

\* get_online_users_view(request) by the user u, lines 377-380: the
\* heartbeat is saved
GetOnlineUsersView(q, u) ==
    /\ hreq[q].pc = "idle"
    /\ touch(u)
    /\ hreq' = [hreq EXCEPT ![q] =
                  [NoHttp EXCEPT !.pc = "sweep", !.view = "online_users",
                                 !.user = u]]
    /\ UNCHANGED <<now, seed, dbVars, connVars, handlerVars, queueVars, nframes,
                   published, resp, client, reactVars, readVars, roomVars>>

\* lines 382-385: the users last seen over 30 seconds ago are set offline
OnlineSweep(q) ==
    /\ hreq[q].pc = "sweep"
    /\ is_online' = Sweep(is_online, last_seen, now)
    /\ HttpGoto(q, "select")
    /\ UNCHANGED <<now, seed, dbVars, last_seen, connVars, handlerVars, queueVars,
                   nframes, published, reactVars, readVars, roomVars>>

\* lines 387-390: the users that are online, and the response
OnlineSelect(q) ==
    /\ hreq[q].pc = "select" /\ hreq[q].view = "online_users"
    /\ HttpEnds(q, [NoResp EXCEPT !.view = "online_users",
                                  !.user = hreq[q].user, !.success = TRUE,
                                  !.online_users = {v \in Users : is_online[v]}])
    /\ UNCHANGED <<now, seed, dbVars, presenceVars, connVars, handlerVars,
                   queueVars, nframes, published, reactVars, readVars, roomVars>>

\* login_view, POST with the credentials of u: user.is_online = True,
\* user.last_seen = now, user.save()
LoginView(u) ==
    /\ update_user_online_status(u, TRUE)
    /\ UNCHANGED <<now, seed, dbVars, connVars, handlerVars, queueVars, nframes,
                   published, resp, client, reactVars, readVars, roomVars, hreq>>

\* logout_view of the user u: is_online = False, last_seen = now, save()
LogoutView(u) ==
    /\ update_user_online_status(u, FALSE)
    /\ UNCHANGED <<now, seed, dbVars, connVars, handlerVars, queueVars, nframes,
                   published, resp, client, reactVars, readVars, roomVars, hreq>>

\* the views that change a field of request.user and save the whole row
SaveViews == {"update_theme", "profile"}

\* update_theme_view and profile_view, POST: the request loads the row of
\* its user
SaveUserView(q, view, u) ==
    /\ hreq[q].pc = "idle"
    /\ hreq' = [hreq EXCEPT ![q] =
                  [NoHttp EXCEPT !.pc = "save", !.view = view, !.user = u,
                                 !.row = [is_online |-> is_online[u],
                                          last_seen |-> last_seen[u]]]]
    /\ UNCHANGED <<now, seed, dbVars, presenceVars, connVars, handlerVars,
                   queueVars, nframes, published, resp, client, reactVars,
                   readVars, roomVars>>

\* request.user.save() and form.save(): every column of the row is written
\* with what the request loaded
SaveUserRow(q) ==
    /\ hreq[q].pc = "save"
    /\ is_online' = [is_online EXCEPT ![hreq[q].user] = hreq[q].row.is_online]
    /\ last_seen' = [last_seen EXCEPT ![hreq[q].user] = hreq[q].row.last_seen]
    /\ HttpEnds(q, [NoResp EXCEPT !.view = hreq[q].view, !.user = hreq[q].user,
                                  !.success = TRUE])
    /\ UNCHANGED <<now, seed, dbVars, connVars, handlerVars, queueVars, nframes,
                   published, reactVars, readVars, roomVars>>

\* User.username as a string; first_name and last_name are blank
Username(u) == IF u = "u1" THEN <<"u", "1">> ELSE <<"u", "2">>

Lower(c) == IF c = "U" THEN "u" ELSE c

\* icontains: a case-insensitive substring test
IContains(hay, needle) ==
    \E i \in 0..(Len(hay) - Len(needle)) :
        \A j \in 1..Len(needle) : Lower(hay[i + j]) = Lower(needle[j])

\* the strings a search may ask for
Queries == {<<>>, <<"U">>, <<"2">>}

\* search_users_view(request) with ?q=query; ajax: X-Requested-With is set
SearchUsersView(u, query, ajax) ==
    /\ LET users == IF query = <<>> THEN {}
                    ELSE {v \in Users \ {u} : IContains(Username(v), query)}
       IN  resp' = [NoResp EXCEPT
                      !.view = IF ajax THEN "search_users" ELSE "search_users_page",
                      !.user = u, !.success = TRUE,
                      !.users = {[id |-> v, is_online |-> is_online[v]] : v \in users}]
    /\ UNCHANGED <<now, seed, dbVars, presenceVars, connVars, handlerVars,
                   queueVars, nframes, published, client, reactVars, readVars,
                   roomVars, hreq>>

\* how long a run of the presence views lasts: past the stale threshold
Horizon == StaleSeconds + MaxTime + 1

\* the waits between requests: half the stale threshold, and a second more
Waits == {StaleSeconds \div 2, StaleSeconds \div 2 + 1}

\* d seconds pass
Elapse(d) ==
    /\ now + d <= Horizon
    /\ now' = now + d
    /\ UNCHANGED <<seed, dbVars, presenceVars, connVars, handlerVars, queueVars,
                   nframes, published, resp, client, reactVars, readVars,
                   roomVars, hreq>>

\* ------------------------------------------------------ the polling client
\* The page of a user holds a websocket connection and, when it falls back to
\* polling, calls get_messages_view with last_time set to the created_at of
\* the last message it has seen, until a pull returns nothing.
\* the client of connection s starts to poll from the timestamp t
ClientStart(s, t) ==
    /\ ~client.active
    /\ status[s] = "open"
    /\ client' = [active |-> TRUE, conn |-> s, user |-> suser[s],
                  room |-> sroom[s], cursor |-> IsoFormat(t), seen |-> <<>>,
                  start_cursor |-> IsoFormat(t),
                  start_published |-> Len(published), caught_up |-> FALSE]
    /\ UNCHANGED <<now, seed, dbVars, presenceVars, connVars, handlerVars,
                   queueVars, nframes, published, resp, reactVars, readVars,
                   roomVars, hreq>>

\* one poll: get_messages_view with the client's cursor, as request q
ClientPull(q) ==
    /\ client.active /\ ~client.caught_up
    /\ GetMessagesBegin(q, client.user, client.room, client.cursor, TRUE)

\* ----------------------------------------------------------- specifications
NoSession == "nosession"
NoClient == [active |-> FALSE, conn |-> NoSession, user |-> NoUser,
             room |-> NoRoom, cursor |-> NoCursor, seen |-> <<>>,
             start_cursor |-> NoCursor, start_published |-> 0,
             caught_up |-> FALSE]

InitRest ==
    /\ hreq = [q \in Requests |-> NoHttp]
    /\ chatrooms = {}
    /\ nextRoomId = 1
    /\ sreq = [q \in Requests |-> NoStart]
    /\ is_online = [u \in Users |-> FALSE]
    /\ last_seen = [u \in Users |-> 0]
    /\ status = [s \in Sessions |-> "new"]
    /\ suser = [s \in Sessions |-> NoUser]
    /\ sroom = [s \in Sessions |-> NoRoom]
    /\ groups = [r \in Rooms |-> {}]
    /\ pc = [s \in Sessions |-> "idle"]
    /\ loc = [s \in Sessions |-> NoLocals]
    /\ outcome = [s \in Sessions |-> "none"]
    /\ inbox = [s \in Sessions |-> <<>>]
    /\ out = [s \in Sessions |-> <<>>]
    /\ nframes = 0
    /\ published = <<>>
    /\ resp = NoResp
    /\ client = NoClient
    /\ reactions = {}
    /\ nextReactionId = 1
    /\ req = [q \in Requests |-> NoReq]
    /\ reads = {}
    /\ mreq = [q \in Requests |-> NoMark]

\* an empty store; u1 and u2 share r1, u2 alone is in r2
Init ==
    /\ now = 0
    /\ seed = 0
    /\ participants = [r \in Rooms |-> IF r = "r1" THEN {"u1", "u2"} ELSE {"u2"}]
    /\ messages = {}
    /\ nextId = 1
    /\ InitRest

\* ---- Spec: the hub of one room. Connections come and go, frames arrive,
\* ---- group events are dispatched, members are removed; the clock stands.
HubRoom == "r1"
HubFrames == TextFrames \cup MediaFrames \cup TypingFrames

Next ==
    \/ \E u \in Users : Revoke(u, HubRoom)
    \/ \E s \in Sessions, u \in Users \cup {Anon} : Connect(s, u, HubRoom)
    \/ \E s \in Sessions : ConnectJoin(s)
    \/ \E s \in Sessions : ConnectAccept(s)
    \/ \E s \in Sessions : ConnectOnline(s)
    \/ \E s \in Sessions : Disconnect(s)
    \/ \E s \in Sessions : DisconnectOffline(s)
    \/ \E s \in Sessions, f \in HubFrames : ReceiveBegin(s, f)
    \/ \E s \in Sessions : SaveMessage(s)
    \/ \E s \in Sessions : SaveFails(s)
    \/ \E s \in Sessions : GroupSendText(s)
    \/ \E s \in Sessions : FetchMessage(s)
    \/ \E s \in Sessions : GroupSendMedia(s)
    \/ \E s \in Sessions : GroupSendTyping(s)
    \/ \E s \in Sessions : Deliver(s)

Spec == Init /\ [][Next]_vars

\* ---- SpecOrder: the same room with a running clock; members connect and
\* ---- send text.
NextOrder ==
    \/ Tick
    \/ \E s \in Sessions, u \in Users : Connect(s, u, HubRoom)
    \/ \E s \in Sessions : ConnectJoin(s)
    \/ \E s \in Sessions : ConnectAccept(s)
    \/ \E s \in Sessions : ConnectOnline(s)
    \/ \E s \in Sessions : Disconnect(s)
    \/ \E s \in Sessions : DisconnectOffline(s)
    \/ \E s \in Sessions, f \in TextFrames : ReceiveBegin(s, f)
    \/ \E s \in Sessions : SaveMessage(s)
    \/ \E s \in Sessions : GroupSendText(s)
    \/ \E s \in Sessions : Deliver(s)

SpecOrder == Init /\ [][NextOrder]_vars

\* ---- SpecFan: text in one room while the clock stands, where a started
\* ---- handler runs to its end and a connection that stays open dispatches
\* ---- the events queued for it.
NextFan ==
    \/ \E s \in Sessions, u \in Users : Connect(s, u, HubRoom)
    \/ \E s \in Sessions : ConnectJoin(s)
    \/ \E s \in Sessions : ConnectAccept(s)
    \/ \E s \in Sessions : ConnectOnline(s)
    \/ \E s \in Sessions : Disconnect(s)
    \/ \E s \in Sessions : DisconnectOffline(s)
    \/ \E s \in Sessions, f \in TextFrames : ReceiveBegin(s, f)
    \/ \E s \in Sessions : SaveMessage(s)
    \/ \E s \in Sessions : GroupSendText(s)
    \/ \E s \in Sessions : Deliver(s)

SpecFan ==
    /\ Init /\ [][NextFan]_vars
    /\ \A s \in Sessions :
          /\ WF_vars(ConnectAccept(s))
          /\ WF_vars(ConnectOnline(s))
          /\ WF_vars(SaveMessage(s))
          /\ WF_vars(GroupSendText(s))
          /\ WF_vars(Deliver(s))

\* ---- SpecPull: the pull endpoint over every small Message table.
\* a row of such a table: u2 (a participant of both rooms) wrote it
StoredRow(i, r, t) ==
    [id |-> i, chat_room |-> r, sender |-> "u2", message_type |-> "text",
     content |-> <<"a">>, created_at |-> t]

\* a rank of (room, created_at) pairs, NoRoom (no row) first
SlotRank(x) ==
    IF x[1] = NoRoom THEN 0
    ELSE (IF x[1] = "r1" THEN 1 ELSE 2) * (StoreTime + 1) + x[2]

\* the tables with at most StoreSize rows, each in any room at any past time.
\* Primary keys are opaque: one table stands for all that differ from it by
\* a renaming of keys, the one whose keys follow the rank of their rows
Stores ==
    {{StoredRow(i, f[i][1], f[i][2]) : i \in {j \in 1..StoreSize : f[j][1] # NoRoom}} :
        f \in {g \in [1..StoreSize -> (Rooms \cup {NoRoom}) \X (0..StoreTime)] :
                  \A i \in 1..(StoreSize - 1) : SlotRank(g[i]) <= SlotRank(g[i + 1])}}

\* the last_time values tried: none, unparseable ones, every time of a row
PullCursors == {NoCursor, Garbage, BadDate} \cup {IsoFormat(t) : t \in 0..StoreTime}

\* a room id that no ChatRoom row has
UnknownRoom == "r9"

\* the rooms asked for
PullRooms == Rooms \cup {UnknownRoom}

InitPull ==
    /\ now = StoreTime
    /\ seed = 0
    /\ participants = [r \in Rooms |-> IF r = "r1" THEN {"u1", "u2"} ELSE {"u2"}]
    /\ messages \in Stores
    /\ nextId = StoreSize + 1
    /\ InitRest

NextPull ==
    \/ \E u \in Users, r \in PullRooms, c \in PullCursors :
          GetMessagesView(OneRequest, u, r, c)
    \/ GetMessagesCheck(OneRequest)
    \/ GetMessagesSelect(OneRequest)

SpecPull == InitPull /\ [][NextPull]_vars

\* ---- SpecPaged: the room already holds one row less than a page, one per
\* ---- clock tick; a member connects, sends text and deletes its first
\* ---- message, and its client falls back to polling.
InitPaged ==
    /\ seed = PageSize - 1
    /\ now = seed
    /\ participants = [r \in Rooms |-> IF r = "r1" THEN {"u1", "u2"} ELSE {"u2"}]
    /\ messages = {StoredRow(i, HubRoom, i) : i \in 1..seed}
    /\ nextId = seed + 1
    /\ InitRest

\* where the client may start from: before every row, and the latest rows
StartTimes == {0, seed}

\* the connection of the run
Sender == "s1"

\* who holds which connection
Holder(s) == IF s = "s1" THEN "u1" ELSE "u2"

NextPaged ==
    \/ Tick
    \/ Connect(Sender, Holder(Sender), HubRoom)
    \/ ConnectJoin(Sender)
    \/ ConnectAccept(Sender)
    \/ ConnectOnline(Sender)
    \/ Disconnect(Sender)
    \/ DisconnectOffline(Sender)
    \/ \E f \in TextFrames : ReceiveBegin(Sender, f)
    \/ SaveMessage(Sender)
    \/ GroupSendText(Sender)
    \/ Deliver(Sender)
    \/ DeleteMessageView(OtherRequest, Holder(Sender), seed + 1)
    \/ DeleteMessageCheck(OtherRequest)
    \/ DeleteMessageDelete(OtherRequest)
    \/ \E t \in StartTimes : ClientStart(Sender, t)
    \/ ClientPull(OneRequest)
    \/ GetMessagesCheck(OneRequest)
    \/ GetMessagesSelect(OneRequest)

SpecPaged == InitPaged /\ [][NextPaged]_vars

\* ---- SpecPresence: a user holds a connection; heartbeats,
\* ---- logins, logouts and saves of the user row come in while time passes,
\* ---- up to past the stale threshold.
NextPresence ==
    \/ \E d \in Waits : Elapse(d)
    \/ Connect(Sender, Holder(Sender), HubRoom)
    \/ ConnectJoin(Sender)
    \/ ConnectAccept(Sender)
    \/ ConnectOnline(Sender)
    \/ Disconnect(Sender)
    \/ DisconnectOffline(Sender)
    \/ \E u \in Users : GetOnlineUsersView(OneRequest, u)
    \/ OnlineSweep(OneRequest)
    \/ OnlineSelect(OneRequest)
    \/ \E u \in Users : LoginView(u)
    \/ \E u \in Users : LogoutView(u)
    \/ \E u \in Users : SaveUserView(OtherRequest, "update_theme", u)
    \/ SaveUserRow(OtherRequest)

SpecPresence == Init /\ [][NextPresence]_vars

\* ---- SpecSearch: a user holds a connection; heartbeats and user searches
\* ---- come in while time passes, up to past the stale threshold.
NextSearch ==
    \/ \E d \in Waits : Elapse(d)
    \/ Connect(Sender, Holder(Sender), HubRoom)
    \/ ConnectJoin(Sender)
    \/ ConnectAccept(Sender)
    \/ ConnectOnline(Sender)
    \/ \E u \in Users : GetOnlineUsersView(OneRequest, u)
    \/ OnlineSweep(OneRequest)
    \/ OnlineSelect(OneRequest)
    \/ \E u \in Users, q \in Queries, ajax \in BOOLEAN : SearchUsersView(u, q, ajax)

SpecSearch == Init /\ [][NextSearch]_vars

\* ---- SpecMutate: a room with a message of each of its two members; they
\* ---- are removed, and messages are deleted one by one and in bulk, and
\* ---- pulled, and the room page is opened.
MutateStore ==
    {[StoredRow(1, HubRoom, 1) EXCEPT !.sender = "u1"], StoredRow(2, HubRoom, 2)}

InitMutate ==
    /\ now = StoreTime
    /\ seed = Cardinality(MutateStore)
    /\ participants = [r \in Rooms |-> IF r = "r1" THEN {"u1", "u2"} ELSE {"u2"}]
    /\ messages = MutateStore
    /\ nextId = seed + 1
    /\ InitRest

\* the message ids a request may name: those of the table and a missing one
TargetIds == 1..(Cardinality(MutateStore) + 1)

\* the bodies of a bulk delete: broken, empty, one id, two ids
BulkBodies ==
    {InvalidBody, BulkBody(<<>>)}
        \cup {BulkBody(<<i>>) : i \in TargetIds}
        \cup {BulkBody(<<i, j>>) : i, j \in TargetIds}

NextMutate ==
    \/ \E u \in Users : Revoke(u, HubRoom)
    \/ \E u \in Users, i \in TargetIds : DeleteMessageView(OneRequest, u, i)
    \/ DeleteMessageCheck(OneRequest)
    \/ DeleteMessageDelete(OneRequest)
    \/ \E u \in Users, b \in BulkBodies :
          DeleteMultipleMessagesView(OneRequest, u, b)
    \/ BulkIterate(OneRequest)
    \/ BulkCheck(OneRequest)
    \/ BulkDelete(OneRequest)
    \/ \E u \in Users : GetMessagesView(OtherRequest, u, HubRoom, IsoFormat(0))
    \/ GetMessagesCheck(OtherRequest)
    \/ GetMessagesSelect(OtherRequest)
    \/ \E u \in Users : MarkBegin(OneRequest, "chat_room", u, HubRoom)
    \/ MarkQuery(OneRequest)
    \/ MarkOne(OneRequest)
    \/ MarkExists(OneRequest)
    \/ MarkLast(OneRequest)

SpecMutate == InitMutate /\ [][NextMutate]_vars

\* ---- SpecReact: the same room; a member is connected, requests react to
\* ---- the messages one after another, one message is deleted by its
\* ---- sender, and members are removed.

NextReact ==
    \/ \E u \in Users : Revoke(u, HubRoom)
    \/ Connect(Sender, Holder(Sender), HubRoom)
    \/ ConnectJoin(Sender)
    \/ ConnectAccept(Sender)
    \/ ConnectOnline(Sender)
    \/ \E u \in Users, i \in TargetIds, k \in Kinds \cup {"invalid"} :
          ReactBegin(OneRequest, u, i, k)
    \/ ReactCheck(OneRequest)
    \/ ReactRead(OneRequest)
    \/ ReactWrite(OneRequest)
    \/ \E q \in Requests : DeleteMessageView(q, "u2", 2)
    \/ \E q \in Requests : DeleteMessageCheck(q)
    \/ \E q \in Requests : DeleteMessageDelete(q)

SpecReact == InitMutate /\ [][NextReact]_vars

\* ---- SpecRace: the same room; two react requests are in flight at a time.
NextRace ==
    \/ \E q \in Requests, u \in Users, i \in TargetIds, k \in Kinds \cup {"invalid"} :
          ReactBegin(q, u, i, k)
    \/ \E q \in Requests : ReactCheck(q)
    \/ \E q \in Requests : ReactRead(q)
    \/ \E q \in Requests : ReactWrite(q)

SpecRace == InitMutate /\ [][NextRace]_vars

\* ---- SpecToggle: the same room; react requests run one after another.
NextToggle ==
    \/ \E u \in Users, i \in TargetIds, k \in Kinds \cup {"invalid"} :
          ReactBegin(OneRequest, u, i, k)
    \/ ReactCheck(OneRequest)
    \/ ReactRead(OneRequest)
    \/ ReactWrite(OneRequest)

SpecToggle == InitMutate /\ [][NextToggle]_vars

\* ---- SpecRead: the same room with a running clock; a member opens the
\* ---- room page and marks its messages as read, two requests at a time,
\* ---- while the other member sends text.
ReadTexts == {<<"a">>}
Reader == "u1"

NextRead ==
    \/ Tick
    \/ \E q \in Requests, v \in MarkViews : MarkBegin(q, v, Reader, HubRoom)
    \/ \E q \in Requests : MarkQuery(q)
    \/ \E q \in Requests : MarkOne(q)
    \/ \E q \in Requests : MarkExists(q)
    \/ \E q \in Requests : MarkLast(q)
    \/ \E t \in ReadTexts : SendMessageView(OneRequest, "u2", HubRoom, t)
    \/ SendCreate(OneRequest)

SpecRead == InitMutate /\ [][NextRead]_vars

\* ---- SpecSweep: a room that holds a page of rows, or one row less or
\* ---- more; the latest three rows were written close together. A member
\* ---- loads the room and pages through it.
SweepSizes == {PageSize - 1, PageSize, PageSize + 1}

\* the created_at of the last three of n rows: never decreasing, maybe equal
SweepTails(n) ==
    {g \in [1..3 -> (n - 2)..n] : g[1] <= g[2] /\ g[2] <= g[3]}

\* n rows of the hub room, one per clock tick up to the last three
SweepStore(n, g) ==
    {StoredRow(i, HubRoom, IF i <= n - 3 THEN i ELSE g[i - (n - 3)]) : i \in 1..n}

InitSweep ==
    /\ \E n \in SweepSizes : \E g \in SweepTails(n) :
          /\ seed = n
          /\ messages = SweepStore(n, g)
    /\ now = PageSize + 1
    /\ participants = [r \in Rooms |-> IF r = "r1" THEN {"u1", "u2"} ELSE {"u2"}]
    /\ nextId = seed + 1
    /\ InitRest

\* where the client starts from: before every row, and the last row but three
SweepStarts == {0, PageSize - 4}

NextSweep ==
    \/ Connect(Sender, Holder(Sender), HubRoom)
    \/ ConnectJoin(Sender)
    \/ ConnectAccept(Sender)
    \/ ConnectOnline(Sender)
    \/ \E t \in SweepStarts : ClientStart(Sender, t)
    \/ ClientPull(OneRequest)
    \/ GetMessagesView(OneRequest, Holder(Sender), HubRoom, NoCursor)
    \/ GetMessagesCheck(OneRequest)
    \/ GetMessagesSelect(OneRequest)

SpecSweep == InitSweep /\ [][NextSweep]_vars

\* ---- SpecText: an empty room; a member is connected and sends text frames,
\* ---- and the members post text over HTTP, with blanks around and alone.
Texts == {<<>>, <<Blank>>, <<Blank, "a">>, <<"a", Blank>>}

\* {"type": "text", "content": t}; a missing or null content reads as ''
TextFramesOf(T) == {JsonObject("text", t, 0, FALSE) : t \in T}

NextText ==
    \/ Connect(Sender, Holder(Sender), HubRoom)
    \/ ConnectJoin(Sender)
    \/ ConnectAccept(Sender)
    \/ ConnectOnline(Sender)
    \/ \E f \in TextFramesOf(Texts) : ReceiveBegin(Sender, f)
    \/ SaveMessage(Sender)
    \/ GroupSendText(Sender)
    \/ Deliver(Sender)
    \/ \E u \in Users, t \in Texts : SendMessageView(OneRequest, u, HubRoom, t)
    \/ SendCreate(OneRequest)

SpecText == Init /\ [][NextText]_vars

\* ---- SpecDrop: the room with two stored messages; its members are
\* ---- connected and send frames that are broken, of no known type, or
\* ---- announce media under ids that do and do not resolve.
BrokenFrames == {InvalidJson, ArrayJson, JsonObject("bogus", <<>>, 0, FALSE)}

AnnounceIds == {0, NotUuid, 1, Cardinality(MutateStore) + 1}

AnnounceFrames == {JsonObject("media_uploaded", <<>>, i, FALSE) : i \in AnnounceIds}

NextDrop ==
    \/ \E s \in Sessions : Connect(s, Holder(s), HubRoom)
    \/ \E s \in Sessions : ConnectJoin(s)
    \/ \E s \in Sessions : ConnectAccept(s)
    \/ \E s \in Sessions : ConnectOnline(s)
    \/ \E s \in Sessions, f \in BrokenFrames \cup AnnounceFrames : ReceiveBegin(s, f)
    \/ \E s \in Sessions : FetchMessage(s)
    \/ \E s \in Sessions : GroupSendMedia(s)
    \/ \E s \in Sessions : Deliver(s)

SpecDrop == InitMutate /\ [][NextDrop]_vars

\* ---- SpecOutsider: a room that a user has left holds a message of that
\* ---- user and one of its member; the user calls every view on that room
\* ---- or on the other room, once in a run, while connected to the other
\* ---- room and sending frames, and is removed from it at any moment.
Outsider == "u1"
ClosedRoom == "r2"

OutsiderStore ==
    {[StoredRow(1, ClosedRoom, 1) EXCEPT !.sender = Outsider],
     StoredRow(2, ClosedRoom, 2),
     [StoredRow(3, HubRoom, 2) EXCEPT !.sender = Outsider],
     StoredRow(4, HubRoom, 2)}

\* the message ids the user's requests name: the stored rows
OutsiderIds == 1..Cardinality(OutsiderStore)

\* the reaction and the file of the user's requests
OutsiderKind == "like"
OutsiderFile == "a.png"

\* the user has made no HTTP request yet
Quiet ==
    /\ resp = NoResp
    /\ hreq[OneRequest].pc = "idle"
    /\ req[OneRequest].pc = "idle"
    /\ mreq[OneRequest].pc = "idle"

InitOutsider ==
    /\ now = StoreTime
    /\ seed = Cardinality(OutsiderStore)
    /\ participants = [r \in Rooms |-> IF r = "r1" THEN {"u1", "u2"} ELSE {"u2"}]
    /\ messages = OutsiderStore
    /\ nextId = seed + 1
    /\ InitRest

\* the frames the outsider's connection sends
OutsiderFrames ==
    TextFrames \cup TypingFrames \cup {JsonObject("media_uploaded", <<>>, 1, FALSE)}

\* the last_time values of the outsider's pulls
OutsiderCursors == {NoCursor, IsoFormat(0)}

NextOutsider ==
    \/ Connect(Sender, Outsider, HubRoom)
    \/ ConnectJoin(Sender)
    \/ ConnectAccept(Sender)
    \/ ConnectOnline(Sender)
    \/ Revoke(Outsider, HubRoom)
    \/ \E f \in OutsiderFrames : ReceiveBegin(Sender, f)
    \/ SaveMessage(Sender)
    \/ GroupSendText(Sender)
    \/ FetchMessage(Sender)
    \/ GroupSendMedia(Sender)
    \/ GroupSendTyping(Sender)
    \/ Deliver(Sender)
    \/ \E r \in Rooms, c \in OutsiderCursors :
          Quiet /\ GetMessagesView(OneRequest, Outsider, r, c)
    \/ GetMessagesCheck(OneRequest)
    \/ GetMessagesSelect(OneRequest)
    \/ \E r \in Rooms, t \in ReadTexts :
          Quiet /\ SendMessageView(OneRequest, Outsider, r, t)
    \/ SendCreate(OneRequest)
    \/ \E r \in Rooms :
          Quiet /\ UploadFileView(OneRequest, Outsider, r, OutsiderFile, <<>>)
    \/ UploadCreate(OneRequest)
    \/ \E r \in Rooms, v \in MarkViews :
          Quiet /\ MarkBegin(OneRequest, v, Outsider, r)
    \/ MarkQuery(OneRequest)
    \/ MarkOne(OneRequest)
    \/ MarkExists(OneRequest)
    \/ MarkLast(OneRequest)
    \/ \E i \in OutsiderIds :
          Quiet /\ ReactBegin(OneRequest, Outsider, i, OutsiderKind)
    \/ ReactCheck(OneRequest)
    \/ ReactRead(OneRequest)
    \/ ReactWrite(OneRequest)
    \/ \E i \in OutsiderIds : Quiet /\ DeleteMessageView(OneRequest, Outsider, i)
    \/ DeleteMessageCheck(OneRequest)
    \/ DeleteMessageDelete(OneRequest)

SpecOutsider == InitOutsider /\ [][NextOutsider]_vars

\* ---- SpecSeq: each member holds one connection to the room and sends text
\* ---- frames over it while the clock runs.
NextSeq ==
    \/ Tick
    \/ \E s \in Sessions : Connect(s, Holder(s), HubRoom)
    \/ \E s \in Sessions : ConnectJoin(s)
    \/ \E s \in Sessions : ConnectAccept(s)
    \/ \E s \in Sessions : ConnectOnline(s)
    \/ \E s \in Sessions : Disconnect(s)
    \/ \E s \in Sessions : DisconnectOffline(s)
    \/ \E s \in Sessions, f \in TextFrames : ReceiveBegin(s, f)
    \/ \E s \in Sessions : SaveMessage(s)
    \/ \E s \in Sessions : GroupSendText(s)
    \/ \E s \in Sessions : Deliver(s)

SpecSeq == Init /\ [][NextSeq]_vars

\* ---- SpecConfine: the members of one room are connected to it and send
\* ---- text and announce media, while the other room, which one of them is
\* ---- not in, holds messages.
NextConfine ==
    \/ \E s \in Sessions : Connect(s, Holder(s), HubRoom)
    \/ \E s \in Sessions : ConnectJoin(s)
    \/ \E s \in Sessions : ConnectAccept(s)
    \/ \E s \in Sessions : ConnectOnline(s)
    \/ \E s \in Sessions, f \in TextFrames \cup AnnounceFrames : ReceiveBegin(s, f)
    \/ \E s \in Sessions : SaveMessage(s)
    \/ \E s \in Sessions : GroupSendText(s)
    \/ \E s \in Sessions : FetchMessage(s)
    \/ \E s \in Sessions : GroupSendMedia(s)
    \/ \E s \in Sessions : Deliver(s)

SpecConfine == InitOutsider /\ [][NextConfine]_vars

\* ---- SpecAlive: the members hold connections that stay open and send
\* ---- typing frames over them, time passes, and anyone asks who is online.
NextAlive ==
    \/ \E d \in Waits : Elapse(d)
    \/ \E s \in Sessions : Connect(s, Holder(s), HubRoom)
    \/ \E s \in Sessions : ConnectJoin(s)
    \/ \E s \in Sessions : ConnectAccept(s)
    \/ \E s \in Sessions : ConnectOnline(s)
    \/ \E s \in Sessions, f \in TypingFrames : ReceiveBegin(s, f)
    \/ \E s \in Sessions : GroupSendTyping(s)
    \/ \E s \in Sessions : Deliver(s)
    \/ \E u \in Users : GetOnlineUsersView(OneRequest, u)
    \/ OnlineSweep(OneRequest)
    \/ OnlineSelect(OneRequest)

SpecAlive == Init /\ [][NextAlive]_vars

\* ---- SpecReject: members, non-members and anonymous visitors open
\* ---- connections to the rooms and close them, while the clock runs and
\* ---- users send heartbeats.
NextReject ==
    \/ Tick
    \/ \E s \in Sessions, u \in Users \cup {Anon}, r \in Rooms : Connect(s, u, r)
    \/ \E s \in Sessions : ConnectJoin(s)
    \/ \E s \in Sessions : ConnectAccept(s)
    \/ \E s \in Sessions : ConnectOnline(s)
    \/ \E s \in Sessions : Disconnect(s)
    \/ \E s \in Sessions : DisconnectOffline(s)
    \/ \E u \in Users : GetOnlineUsersView(OneRequest, u)
    \/ OnlineSweep(OneRequest)
    \/ OnlineSelect(OneRequest)

SpecReject == Init /\ [][NextReject]_vars

\* ---- SpecPush: the members are connected to the room; messages are
\* ---- created by text frames, by send_message_view and by upload_file_view.
\* ---- The steps of the server (a running handler, the dispatch of a queued
\* ---- event) are taken eventually; the clients are free to do nothing.
NextPush ==
    \/ \E s \in Sessions : Connect(s, Holder(s), HubRoom)
    \/ \E s \in Sessions : ConnectJoin(s)
    \/ \E s \in Sessions : ConnectAccept(s)
    \/ \E s \in Sessions : ConnectOnline(s)
    \/ \E s \in Sessions, f \in TextFrames : ReceiveBegin(s, f)
    \/ \E s \in Sessions : SaveMessage(s)
    \/ \E s \in Sessions : GroupSendText(s)
    \/ \E s \in Sessions : Deliver(s)
    \/ \E u \in Users : SendMessageView(OneRequest, u, HubRoom, <<"a">>)
    \/ SendCreate(OneRequest)
    \/ \E u \in Users, r \in {HubRoom, UnknownRoom}, n \in FileNames :
          UploadFileView(OtherRequest, u, r, n, <<>>)
    \/ UploadCreate(OtherRequest)

SpecPush ==
    /\ Init
    /\ [][NextPush]_vars
    /\ \A s \in Sessions :
          /\ WF_vars(ConnectAccept(s))
          /\ WF_vars(ConnectOnline(s))
          /\ WF_vars(SaveMessage(s))
          /\ WF_vars(GroupSendText(s))
          /\ WF_vars(Deliver(s))

\* ---- SpecBulk: a user has two messages in a shared room and one in a
\* ---- room the user has left, next to a message of the other member;
\* ---- members are removed and lists of ids are deleted in bulk.
BulkStore ==
    {[StoredRow(1, HubRoom, 1) EXCEPT !.sender = Outsider],
     [StoredRow(2, HubRoom, 2) EXCEPT !.sender = Outsider],
     [StoredRow(3, ClosedRoom, 1) EXCEPT !.sender = Outsider],
     StoredRow(4, HubRoom, 2)}

InitBulk ==
    /\ now = StoreTime
    /\ seed = Cardinality(BulkStore)
    /\ participants = [r \in Rooms |-> IF r = "r1" THEN {"u1", "u2"} ELSE {"u2"}]
    /\ messages = BulkStore
    /\ nextId = seed + 1
    /\ InitRest

\* the ids a body may list: those of the table and a missing one
BulkIds == 1..(Cardinality(BulkStore) + 1)

\* the bodies: broken, empty, one id, two ids (also the same id twice), and
\* the user's two messages of the shared room with one more id
BulkLists ==
    {InvalidBody, BulkBody(<<>>)}
        \cup {BulkBody(<<i>>) : i \in BulkIds}
        \cup {BulkBody(<<i, j>>) : i, j \in BulkIds}
        \cup {BulkBody(<<1, 2, i>>) : i \in BulkIds}

NextBulk ==
    \/ \E u \in Users : Revoke(u, HubRoom)
    \/ \E q \in Requests, u \in Users, b \in BulkLists :
          DeleteMultipleMessagesView(q, u, b)
    \/ \E q \in Requests : BulkIterate(q)
    \/ \E q \in Requests : BulkCheck(q)
    \/ \E q \in Requests : BulkDelete(q)

SpecBulk == InitBulk /\ [][NextBulk]_vars

\* ---- SpecStart: no private room exists (the two rooms of the start are
\* ---- group chats); the users start chats with each other, with themselves
\* ---- and with a user that does not exist, in requests that overlap.
NextStart ==
    \/ \E q \in Requests, u \in Users, v \in Users \cup {NoUser} : StartBegin(q, u, v)
    \/ \E q \in Requests : StartCreate(q)
    \/ \E q \in Requests : StartAdd(q)

SpecStart == Init /\ [][NextStart]_vars

\* ------------------------------------------------------------------ claims
\* the connection's user is (still) a participant of the connection's room
IsMember(s) == sroom[s] \in Rooms /\ suser[s] \in participants[sroom[s]]

\* the events of a queue or the frames of a socket that carry a message
\* payload built by the text branch of receive()
TextPayloads(q) ==
    {q[i].message : i \in {j \in 1..Len(q) :
        q[j].type \in {"chat_message", "message"} /\ q[j].message.shape = "text"}}

\* the payload is that of a row of the Message table
IsPersisted(p) == \E m \in messages : MessagePayload(m, p.shape) = p

\* C5: persist-then-broadcast. A text event's message is handed to the room
\* group only once save_message has returned its row; every message event of
\* the text branch that is queued for, or was sent to, any connection
\* describes a persisted row; and the step in which save_message fails
\* queues and sends nothing, persists nothing and ends the handler.
C5_PersistThenBroadcast ==
    /\ [](\A s \in Sessions :
            /\ pc[s] = "send_text" => loc[s].message \in messages
            /\ \A p \in TextPayloads(inbox[s]) \cup TextPayloads(out[s]) :
                  IsPersisted(p))
    /\ [][\A s \in Sessions :
            (pc[s] = "save" /\ outcome'[s] = "error") =>
                /\ pc'[s] = "idle"
                /\ UNCHANGED <<messages, inbox, out, published>>]_vars

\* C5 witness: one text event was saved and its message sent to a client,
\* and another text event failed to save
C5_Witness ==
    /\ \E s \in Sessions : TextPayloads(out[s]) # {}
    /\ \E s \in Sessions : outcome[s] = "error"

\* C6: a persistence failure is reported to the sending connection and to no
\* other: once a connection's text event has failed to save, that connection
\* has been sent a failure frame and no other connection has.
C6_FailureReportedToSender ==
    \A s \in Sessions :
        outcome[s] = "error" =>
            /\ \E i \in 1..Len(out[s]) : out[s][i].type \notin {"message", "typing"}
            /\ \A o \in Sessions \ {s} :
                  \A i \in 1..Len(out[o]) : out[o][i].type \in {"message", "typing"}

\* C7: typing exclusion. No connection is ever sent a typing frame of its own
\* user; the group_send of a typing event queues it for every connection of
\* the room group; and a connection that dispatches a typing event of another
\* user sends it to its client.
C7_TypingExclusion ==
    /\ [](\A s \in Sessions : \A i \in 1..Len(out[s]) :
            out[s][i].type = "typing" => out[s][i].user # suser[s])
    /\ [][\A s \in Sessions :
            (pc[s] = "send_typing" /\ pc'[s] = "idle") =>
                \A o \in groups[sroom[s]] :
                    inbox'[o] = Append(inbox[o],
                                       TypingEvent(suser[s], loc[s].is_typing))]_vars
    /\ [][\A o \in Sessions :
            (/\ inbox[o] # <<>>
             /\ status'[o] = "open"
             /\ inbox'[o] = Tail(inbox[o])
             /\ Head(inbox[o]).type = "typing_indicator"
             /\ Head(inbox[o]).user # suser[o]) =>
                out'[o] = Append(out[o], TypingFrame(Head(inbox[o])))]_vars

\* C7 witness: a connection sent a typing event, has dispatched everything
\* queued for it and was sent no typing frame, while a connection of another
\* user was sent the typing frame
C7_Witness ==
    \E s, o \in Sessions :
        /\ s # o /\ status[s] = "open" /\ status[o] = "open"
        /\ suser[s] # suser[o]
        /\ outcome[s] = "broadcast" /\ inbox[s] = <<>>
        /\ \A i \in 1..Len(out[s]) : out[s][i].type # "typing"
        /\ \E i \in 1..Len(out[o]) :
              out[o][i].type = "typing" /\ out[o][i].user = suser[s]

\* C8: connect fails closed. A connection enters a room group only in the
\* group_add of its connect(), which it reaches only past the membership
\* check, made when its user is authenticated and a participant of that
\* room; a connect by an anonymous user or a non-participant changes no
\* group and is never accepted; a connection is accepted only after its
\* group_add; the connections of a group are accepted or about to be, each
\* in the group of its own room.
C8_ConnectFailsClosed ==
    /\ [](\A r \in Rooms : \A s \in groups[r] :
            /\ status[s] = "open" \/ (status[s] = "new" /\ pc[s] = "accept")
            /\ sroom[s] = r /\ suser[s] \in Users)
    /\ [][\A s \in Sessions :
            (status'[s] = "open" /\ status[s] # "open") =>
                status[s] = "new" /\ pc[s] = "accept" /\ s \in groups[sroom[s]]]_vars
    /\ [](\A s \in Sessions : status[s] = "rejected" =>
            /\ out[s] = <<>> /\ pc[s] \in {"idle", "set_offline"}
            /\ \A r \in Rooms : s \notin groups[r])
    /\ [][\A s \in Sessions : \A r \in Rooms :
            (s \in groups'[r] /\ s \notin groups[r]) =>
                status[s] = "new" /\ pc[s] = "group_add" /\ sroom[s] = r]_vars
    /\ [][\A s \in Sessions :
            (pc'[s] = "group_add" /\ pc[s] # "group_add") =>
                /\ status[s] = "new"
                /\ suser'[s] \in Users
                /\ suser'[s] \in participants[sroom'[s]]]_vars
    /\ [][\A s \in Sessions : \A u \in Users \cup {Anon} :
            (Connect(s, u, HubRoom) /\ (u = Anon \/ ~(u \in participants[HubRoom])))
                => status'[s] = "rejected" /\ groups' = groups]_vars

\* C8 witness: a user who is no participant of the room was refused while
\* another connection is open in the room's group
C8_Witness ==
    \E s, o \in Sessions :
        /\ status[s] = "rejected" /\ suser[s] \in Users /\ ~IsMember(s)
        /\ status[o] = "open" /\ o \in groups[sroom[o]]

\* C9: revocation stops posting. When an open connection whose user is no
\* longer a participant of its room starts handling a text, media_uploaded
\* or typing frame, that step ends the handler and changes neither the
\* Message table nor any queue or socket.
C9_RevocationStopsPosting ==
    [][\A s \in Sessions : \A f \in HubFrames :
        (status[s] = "open" /\ ~IsMember(s) /\ ReceiveBegin(s, f)) =>
            /\ pc'[s] = "idle"
            /\ UNCHANGED <<messages, nextId, inbox, out, published>>]_vars

\* C9 witness: a connection that joined as a participant was refused on a
\* frame after its user was removed from the room
C9_Witness ==
    \E s \in Sessions :
        /\ status[s] = "open" /\ s \in groups[sroom[s]]
        /\ ~IsMember(s) /\ outcome[s] = "unauthorized"

\* the connection was refused on its latest frame: its user is not a
\* participant of the room any more
Refused(s) == status[s] = "open" /\ outcome[s] = "unauthorized" /\ ~IsMember(s)

\* C10: revocation stops receiving. Once a connection has been refused on a
\* frame after its user's removal from the room, no event published later
\* reaches it: nothing more is queued for it, and it is sent nothing beyond
\* what was queued before.
C10_RevocationStopsReceiving ==
    [][\A s \in Sessions :
        Refused(s) =>
            Len(inbox'[s]) + Len(out'[s]) <= Len(inbox[s]) + Len(out[s])]_vars

\* C2: strict greater-than cursor. A successful pull of room R with a
\* well-formed timestamp cursor c returns only rows of R whose created_at is
\* later than c, never one at or before c, in ascending created_at order.
C2_StrictCursor ==
    (resp.view = "get_messages" /\ resp.success /\ resp.cursor.kind = "iso") =>
        \A i \in 1..Len(resp.messages) :
            /\ resp.messages[i].created_at.t > resp.cursor.t
            /\ \A m \in messages :
                  m.id = resp.messages[i].id => m.chat_room = resp.room
            /\ \A j \in 1..Len(resp.messages) :
                  i < j => resp.messages[i].created_at.t
                              <= resp.messages[j].created_at.t

\* C2 witness: a pull with a timestamp cursor returned two rows of different
\* times while the room also holds a row at or before the cursor
C2_Witness ==
    /\ resp.view = "get_messages" /\ resp.success /\ resp.cursor.kind = "iso"
    /\ Len(resp.messages) >= 2
    /\ resp.messages[1].created_at # resp.messages[2].created_at
    /\ \E m \in messages :
          m.chat_room = resp.room /\ m.created_at <= resp.cursor.t

\* C3: monotonic position per room. Of two message events handed to
\* group_send for the same room, the one published first has the strictly
\* smaller created_at.
C3_MonotonicPosition ==
    \A i, j \in 1..Len(published) :
        (i < j /\ published[i].room = published[j].room) =>
            published[i].created_at < published[j].created_at

\* ------------------------------------------------- push and pull together
\* message frames with this id sent to the socket of connection s
PushCount(s, id) ==
    Cardinality({i \in 1..Len(out[s]) :
                    out[s][i].type = "message" /\ out[s][i].message.id = id})

\* times the polling client was handed the message with this id
PullCount(id) == Cardinality({i \in 1..Len(client.seen) : client.seen[i] = id})

\* some connection was sent a message frame for this id
Delivered(id) == \E s \in Sessions : PushCount(s, id) > 0

\* the push of m to s is over (sent or dropped with the connection) and the
\* client of s, which began to poll after the publication k from a cursor
\* before m, has polled until nothing came back
Settled(s, k, m) ==
    /\ \A i \in 1..Len(inbox[s]) :
          inbox[s][i].type = "chat_message" => inbox[s][i].message.id # m.id
    /\ client.active /\ client.conn = s /\ client.caught_up
    /\ k <= client.start_published
    /\ client.start_cursor.t < m.created_at

\* C1: every message that was saved and published in a room and is not
\* deleted reaches each connection that was subscribed at publish time exactly
\* once by push, or is handed exactly once to its client polling from a cursor
\* before the message and advancing to the last created_at seen.
C1_NoLossNoDuplicate ==
    \A k \in 1..Len(published) : \A s \in published[k].subscribers :
        \A m \in messages :
            (m.id = published[k].id /\ Settled(s, k, m))
                => (PushCount(s, m.id) = 1 \/ PullCount(m.id) = 1)

\* the step is one call of get_messages_view, answered by resp'
PullStep == client.active /\ client' # client

\* rows of the room after the cursor time c and up to the row m
RowsUpTo(room, c, m) ==
    {x \in messages : x.chat_room = room /\ c < x.created_at
                        /\ x.created_at <= m.created_at}

\* the response lists the row m
Lists(reply, m) == \E i \in 1..Len(reply.messages) : reply.messages[i].id = m.id

\* every message frame sent to a socket names a row that was inserted, once
Registered ==
    /\ \A s \in Sessions : \A i \in 1..Len(out[s]) :
          out[s][i].type = "message"
              => /\ out[s][i].message.id < nextId
                 /\ Cardinality({m \in messages : m.id = out[s][i].message.id}) <= 1
    /\ \A j, k \in 1..Len(published) : j # k => published[j].id # published[k].id
    /\ Len(published) <= nextId - (seed + 1)

\* C4 (amended): a message frame is sent only for a row that was inserted
\* before, once per text frame; a poll made after the frame was sent, with a
\* cursor before the row's created_at, lists the row if it is not deleted and
\* at most a page of rows of the room lie after the cursor up to the row.
C4_PullVisibleBeforePush ==
    /\ []Registered
    /\ [][PullStep =>
            \A m \in messages :
                (/\ Delivered(m.id)
                 /\ m.chat_room = resp'.room
                 /\ resp'.cursor.t < m.created_at
                 /\ Cardinality(RowsUpTo(resp'.room, resp'.cursor.t, m)) <= PageSize)
                    => Lists(resp', m)]_vars

\* a poll from the first cursor returned a full page that ends with a row
\* created in the run whose frame had been sent
C4_Witness ==
    /\ resp.view = "get_messages" /\ resp.success
    /\ resp.cursor = IsoFormat(0)
    /\ Len(resp.messages) = PageSize
    /\ resp.messages[PageSize].id > seed
    /\ Delivered(resp.messages[PageSize].id)
    /\ \E m \in messages : m.id = resp.messages[PageSize].id

\* C4 as stated: a poll made after the frame was sent, with any cursor before
\* the row's created_at, lists the row unless it was deleted.
C4_AnyEarlierCursor ==
    /\ []Registered
    /\ [][PullStep =>
            \A m \in messages :
                (/\ Delivered(m.id)
                 /\ m.chat_room = resp'.room
                 /\ resp'.cursor.t < m.created_at)
                    => Lists(resp', m)]_vars

\* ------------------------------------------------------------- presence
\* the connection s closes in this step
Closes(s) == status[s] = "closing" /\ status'[s] = "closed"

\* another connection of the same user stays open
OtherOpen(s) ==
    \E o \in Sessions \ {s} : status[o] = "open" /\ suser[o] = suser[s]

\* C11: closing a connection takes it out of its room group, and marks its
\* user offline only if the user has no other open connection: a user with
\* another open connection is still online after the close.
C11_CloseKeepsOthersOnline ==
    [][\A s \in Sessions :
          Closes(s) =>
              /\ \A r \in Rooms : s \notin groups'[r]
              /\ is_online'[suser[s]] = OtherOpen(s)]_vars

\* ------------------------------------------------------------- fan-out
\* a chat_message event for the message id waits in the queue of s
Pending(s, id) ==
    \E i \in 1..Len(inbox[s]) :
        inbox[s][i].type = "chat_message" /\ inbox[s][i].message.id = id

\* s was sent a message frame for the row m with its content and sender
Carries(s, m) ==
    \E i \in 1..Len(out[s]) :
        /\ out[s][i].type = "message"
        /\ out[s][i].message.id = m.id
        /\ out[s][i].message.content = m.content
        /\ out[s][i].message.sender = m.sender

\* the publication k has reached the subscriber s, or is on its way
Reaches(k, s) ==
    \E m \in messages :
        /\ m.id = published[k].id
        /\ m.sender = suser[published[k].by]
        /\ Pending(s, m.id) \/ Carries(s, m)

\* C12 (amended): a saved text message is queued for every connection in the
\* room group at publish time, the sender's included, and each of them that
\* stays open is sent a message frame with the saved content and the sender.
C12_FanOutToOpenSubscribers ==
    /\ [](\A k \in 1..Len(published) : \A s \in published[k].subscribers :
            status[s] = "open" => Reaches(k, s))
    /\ \A s \in Sessions : \A id \in 1..MaxFrames :
            Pending(s, id) ~> ~Pending(s, id)

\* two connections of different users were both sent the same message
C12_Witness ==
    \E k \in 1..Len(published) : \E m \in messages :
        /\ m.id = published[k].id
        /\ published[k].subscribers = Sessions
        /\ suser["s1"] # suser["s2"]
        /\ \A s \in Sessions : Carries(s, m)

\* C12 as stated: every connection subscribed at publish time is sent the
\* message, whether or not it stays open.
C12_FanOutToAllSubscribers ==
    \A k \in 1..Len(published) : \A s \in published[k].subscribers :
        Reaches(k, s)

\* ---------------------------------------------------- presence staleness
\* the user was last touched over 30 seconds ago
Expired(v) == last_seen[v] + StaleSeconds < now

\* C13: the sweep of a heartbeat that runs more than 30 seconds after the
\* last touch of an online user marks that user offline, and the online set
\* that a heartbeat returns holds no other user last touched over 30
\* seconds ago.
C13_StalenessExpiry ==
    /\ [][\A q \in Requests :
            OnlineSweep(q) =>
                \A v \in Users \ {hreq[q].user} :
                    (is_online[v] /\ Expired(v)) => ~is_online'[v]]_vars
    /\ [][\A q \in Requests :
            OnlineSelect(q) =>
                \A v \in resp'.online_users \ {hreq[q].user} : ~Expired(v)]_vars

\* every user shown online was touched within the last 30 seconds
Fresh == \A u \in Users : is_online[u] => now - last_seen[u] <= StaleSeconds

\* the step is a user search answered by resp'
Searches == \E u \in Users, q \in Queries, ajax \in BOOLEAN : SearchUsersView(u, q, ajax)

\* C14: in every state, and in every heartbeat response and user search
\* result, a user shown online has last_seen within the last 30 seconds.
C14_PresenceFreshness ==
    /\ []Fresh
    /\ [][Searches => \A x \in resp'.users :
            x.is_online => now - last_seen[x.id] <= StaleSeconds]_vars
    /\ [][\A q \in Requests : OnlineSelect(q) => \A v \in resp'.online_users :
            now - last_seen[v] <= StaleSeconds]_vars

\* C15: a heartbeat of user u marks u online with last_seen = now, sweeps the
\* stale users, and returns exactly the users that are online: u is among
\* them and none of them was last seen over 30 seconds ago.
C15_HeartbeatResponse ==
    /\ [][\A q \in Requests : \A u \in Users :
            GetOnlineUsersView(q, u) => is_online'[u] /\ last_seen'[u] = now]_vars
    /\ [][\A q \in Requests :
            OnlineSweep(q) =>
                /\ last_seen' = last_seen
                /\ \A v \in Users : is_online'[v] = (is_online[v] /\ ~Expired(v))]_vars
    /\ [][\A q \in Requests :
            OnlineSelect(q) =>
                /\ resp'.online_users = {v \in Users : is_online[v]}
                /\ hreq[q].user \in resp'.online_users
                /\ \A v \in resp'.online_users :
                      now - last_seen[v] <= StaleSeconds]_vars

\* ------------------------------------------------------------- deletions
\* the step is a pull answered by resp'
Pulls == \E q \in Requests : GetMessagesSelect(q)

\* the entry of the response for the message id, if it lists one
EntriesFor(reply, id) ==
    {i \in 1..Len(reply.messages) : reply.messages[i].id = id}

\* C16: a deleted message keeps its identifier and its created_at as a row
\* of the table, and a pull of its room from a cursor before its created_at
\* still lists it, with cleared content.
C16_TombstonesSurvive ==
    /\ [](\A m \in MutateStore : \E x \in messages :
            x.id = m.id /\ x.created_at = m.created_at)
    /\ [][Pulls =>
            \A m \in MutateStore \ messages :
                (resp'.success /\ m.chat_room = resp'.room
                    /\ resp'.cursor.t < m.created_at)
                  => \E i \in EntriesFor(resp', m.id) :
                        resp'.messages[i].content = <<>>]_vars

\* the user sent the message and is a participant of its room
Entitled(u, m) == m.sender = u /\ u \in participants[m.chat_room]

\* the request q has ended in this step
Ends(q) == hreq[q].pc # "idle" /\ hreq'[q].pc = "idle"

\* C17: a row leaves the Message table only in the successful delete request
\* of its sender, who is a participant of its room; a delete request that
\* names a message of which the requester is not the sender changes no row
\* and returns an error, and so does the participant check of a requester
\* who has left the room.
C17_OnlySenderDeletes ==
    [][/\ \A m \in messages \ messages' :
              /\ resp'.view \in {"delete_message", "delete_multiple"}
              /\ resp'.success
              /\ Entitled(resp'.user, m)
       /\ \A q \in Requests, u \in Users, i \in TargetIds :
              (DeleteMessageView(q, u, i)
                  /\ \E m \in messages : m.id = i /\ m.sender # u)
                => messages' = messages /\ ~resp'.success /\ resp'.error # ""
       /\ \A q \in Requests, u \in Users, b \in BulkBodies :
              (DeleteMultipleMessagesView(q, u, b)
                  /\ \E m \in messages :
                        m.id \in Elems(b.message_ids) /\ m.sender # u)
                => messages' = messages /\ ~resp'.success /\ resp'.error # ""
       /\ \A q \in Requests :
              ((DeleteMessageCheck(q) \/ BulkCheck(q))
                  /\ ~(hreq[q].user \in participants[HubRoom]))
                => messages' = messages /\ ~resp'.success /\ resp'.error # ""
      ]_vars

\* ------------------------------------------------------------- reactions
\* the step is a delete or the write of a react request
Mutates ==
    \/ \E q \in Requests : DeleteMessageDelete(q)
    \/ \E q \in Requests : ReactWrite(q)

\* C18: every successful delete and every successful reaction change queues,
\* for each connection subscribed to the message's room, a new event that
\* carries the message identifier and is not a chat_message event.
C18_MutationsFannedOut ==
    [][(Mutates /\ resp'.success) =>
          \A s \in groups[HubRoom] :
              \E i \in (Len(inbox[s]) + 1)..Len(inbox'[s]) :
                  /\ inbox'[s][i].type # "chat_message"
                  /\ inbox'[s][i].message.id = resp'.target]_vars

\* the request q writes and returns in this step
Writes(q) == req[q].pc = "write" /\ req'[q].pc = "idle"

\* C19: with requests running one after another, a react request of a
\* member who has no reaction on the message adds exactly one, of the kind
\* asked for, and returns "added"; a following request with the same kind
\* leaves none and returns "removed"; a following request with another kind
\* leaves exactly one, of the new kind, and returns "updated".
C19_ReactionToggle ==
    [][\A q \in Requests :
          Writes(q) =>
            LET u == req[q].user
                mid == req[q].target
                kind == req[q].reaction
                before == {x \in reactions : x.message = mid /\ x.user = u}
                after == {x \in reactions' : x.message = mid /\ x.user = u}
                one == Cardinality(after) = 1 /\ \A x \in after : x.reaction = kind
            IN  /\ resp'.success /\ resp'.user = u /\ resp'.target = mid
                /\ before = {} => one /\ resp'.action = "added"
                /\ (before # {} /\ \A x \in before : x.reaction = kind)
                      => after = {} /\ resp'.action = "removed"
                /\ (before # {} /\ \E x \in before : x.reaction # kind)
                      => one /\ resp'.action = "updated"]_vars

\* a request changed the kind of the one reaction its user had on the message
C19_Witness ==
    /\ resp.view = "react"
    /\ resp.action = "updated"
    /\ Cardinality({x \in reactions :
                        x.message = resp.target /\ x.user = resp.user}) = 1

\* C20: there is at most one reaction per message and user, and no react
\* request, however the requests interleave, ends in an error that the view
\* does not handle.
C20_ConcurrentReactions ==
    /\ \A u \in Users, i \in TargetIds :
          Cardinality({x \in reactions : x.message = i /\ x.user = u}) <= 1
    /\ \A q \in Requests : req[q].result # "integrity_error"

\* ---------------------------------------------------------- read receipts
\* the receipts of the user on the message
ReceiptsOf(rd, u, mid) == {x \in rd : x.message = mid /\ x.user = u}

\* the step belongs to a mark-read request of the reader
MarkStep ==
    \/ \E q \in Requests, v \in MarkViews : MarkBegin(q, v, Reader, HubRoom)
    \/ \E q \in Requests : MarkQuery(q)
    \/ \E q \in Requests : MarkOne(q)
    \/ \E q \in Requests : MarkExists(q)
    \/ \E q \in Requests : MarkLast(q)

\* C21: there is at most one read receipt per message and user; a receipt,
\* once written, stays as it is with its read time; and a step of a
\* mark-read request made when the user has no unread message in the room
\* changes no receipt.
C21_MarkReadIdempotent ==
    /\ [](\A u \in Users, m \in messages :
            Cardinality(ReceiptsOf(reads, u, m.id)) <= 1)
    /\ [][\A x \in reads : x \in reads']_vars
    /\ [][(MarkStep /\ Unread(reads, Reader, HubRoom) = {}) => reads' = reads]_vars

\* a request that marks the room as read ended well after the clock moved
\* past the read time of a receipt, and the reader has nothing unread
C21_Witness ==
    /\ resp.view \in MarkViews
    /\ resp.success
    /\ \E x \in reads : x.user = Reader /\ x.read_at < now
    /\ Unread(reads, Reader, HubRoom) = {}
    /\ \A q \in Requests : mreq[q].pc = "idle"

\* ------------------------------------------------------------------ paging
\* the rows of the client's room
RoomRows == {m \in messages : m.chat_room = client.room}

\* the created_at of the stored row with the id
TimeOf(id) == (CHOOSE m \in messages : m.id = id).created_at

\* C22: a pull returns at most 50 messages, and a client that pages forward
\* from its first cursor sees the messages in ascending order, none twice,
\* and, when a page comes back empty, has seen every message of the room
\* later than its first cursor.
C22_PagingForward ==
    /\ Len(resp.messages) <= PageSize
    /\ client.active =>
          /\ \A i, j \in 1..Len(client.seen) :
                i < j => /\ client.seen[i] # client.seen[j]
                         /\ TimeOf(client.seen[i]) <= TimeOf(client.seen[j])
          /\ client.caught_up =>
                \A m \in RoomRows :
                    m.created_at > client.start_cursor.t
                      => \E i \in 1..Len(client.seen) : client.seen[i] = m.id

\* the response answers a pull of the hub room without a cursor
InitialPage ==
    /\ resp.view = "get_messages" /\ resp.success
    /\ resp.room = HubRoom /\ resp.cursor = NoCursor

\* C23: a pull without a cursor returns min(50, n) messages of the n of the
\* room, in ascending order of created_at, none older than a message it
\* leaves out, so that its last element is a newest message of the room.
C23_InitialPage ==
    InitialPage =>
        LET rows == {m \in messages : m.chat_room = HubRoom}
            page == resp.messages
            ids == {page[i].id : i \in 1..Len(page)}
        IN  /\ Len(page) = Min(PageSize, Cardinality(rows))
            /\ Cardinality(ids) = Len(page)
            /\ ids \subseteq {m.id : m \in rows}
            /\ \A i \in 1..(Len(page) - 1) :
                  page[i].created_at.t <= page[i + 1].created_at.t
            /\ \A m \in rows : m.id \notin ids =>
                  \A i \in 1..Len(page) : m.created_at <= page[i].created_at.t
            /\ \A m \in rows : m.created_at <= page[Len(page)].created_at.t

\* the room holds a row more than a page and the pull returned a full page
C23_Witness ==
    /\ InitialPage
    /\ Cardinality({m \in messages : m.chat_room = HubRoom}) = PageSize + 1
    /\ Len(resp.messages) = PageSize

\* the last_time values that parse_datetime cannot turn into a timestamp
Malformed == {Garbage, BadDate}

\* the answer to a pull of the room without last_time when the rows are
\* selected
PlainAnswer(u, r, rows) ==
    IF r \notin Rooms
    THEN GetMessagesRefusal(u, r, NoCursor, "No ChatRoom matches the given query.")
    ELSE IF ~(u \in participants[r])
    THEN GetMessagesRefusal(u, r, NoCursor, "Not authorized")
    ELSE GetMessagesResponse(u, r, NoCursor, rows)

\* C24: a pull whose last_time does not parse is answered like a pull
\* without last_time: with the same outcome and the same messages in the
\* same order, which for a participant is a success.
C24_MalformedCursorResyncs ==
    (resp.view = "get_messages" /\ resp.cursor \in Malformed) =>
        LET u == resp.user
            r == resp.room
        IN  /\ (r \in Rooms /\ u \in participants[r]) => resp.success
            /\ \E rows \in SelectMessages(r, NoCursor) :
                  LET plain == PlainAnswer(u, r, rows)
                  IN  /\ resp.success = plain.success
                      /\ resp.error = plain.error
                      /\ resp.messages = plain.messages

\* a pull with an unparseable last_time returned the rows of a room that
\* holds several, the oldest of them first
C24_Witness ==
    /\ resp.view = "get_messages"
    /\ resp.cursor \in Malformed
    /\ resp.success
    /\ Len(resp.messages) >= 2
    /\ resp.messages[1].created_at.t < resp.messages[Len(resp.messages)].created_at.t

\* --------------------------------------------------------------- empty text
\* the text is empty or made of blanks only
AllBlank(t) == \A i \in 1..Len(t) : t[i] = Blank

\* c is the text t without the blanks at its two ends
IsTrimOf(c, t) ==
    /\ c # <<>> /\ c[1] # Blank /\ c[Len(c)] # Blank
    /\ \E i \in 1..Len(t) :
          /\ i + Len(c) - 1 <= Len(t)
          /\ c = SubSeq(t, i, i + Len(c) - 1)
          /\ AllBlank(SubSeq(t, 1, i - 1))
          /\ AllBlank(SubSeq(t, i + Len(c), Len(t)))

\* C25: a text frame or a send-message request whose content is empty or
\* blank creates no message and queues no event; every text message these
\* two paths store has a content that is not empty and is the content sent
\* without the blanks around it.
C25_EmptyTextRejected ==
    /\ [](\A m \in messages :
            m.message_type = "text" => m.content # <<>> /\ ~AllBlank(m.content))
    /\ [][\A f \in TextFramesOf(Texts) :
            ReceiveBegin(Sender, f) =>
                IF AllBlank(f.content)
                THEN /\ pc'[Sender] = "idle"
                     /\ outcome'[Sender] = "empty"
                     /\ UNCHANGED <<messages, inbox, published>>
                ELSE /\ pc'[Sender] = "save"
                     /\ IsTrimOf(loc'[Sender].content, f.content)]_vars
    /\ [][SaveMessage(Sender) =>
            \E m \in messages' :
                /\ messages' = messages \cup {m} /\ m \notin messages
                /\ m.content = loc[Sender].content]_vars
    /\ [][\A u \in participants[HubRoom], t \in Texts :
            SendMessageView(OneRequest, u, HubRoom, t) =>
                /\ UNCHANGED <<messages, inbox, published>>
                /\ IF AllBlank(t)
                   THEN ~resp'.success /\ hreq'[OneRequest].pc = "idle"
                   ELSE /\ hreq'[OneRequest].pc = "create"
                        /\ IsTrimOf(hreq'[OneRequest].content, t)]_vars
    /\ [][SendCreate(OneRequest) =>
            \E m \in messages' :
                /\ messages' = messages \cup {m} /\ m \notin messages
                /\ m.message_type = "text"
                /\ m.content = hreq[OneRequest].content]_vars

\* a blank frame and a blank post were both turned down, and a text sent
\* with a blank after it is stored without the blank
C25_Witness ==
    /\ outcome[Sender] = "empty"
    /\ resp.view = "send_message" /\ resp.error = "Empty message"
    /\ \E m \in messages : m.content = <<"a">>

\* ------------------------------------------------------------ dropped frames
\* nothing is stored, queued or sent, and the connection stays open with its
\* handler at rest
DroppedBy(s) ==
    /\ UNCHANGED <<messages, reactions, reads, inbox, out, published,
                   roomVars, hreq>>
    /\ status'[s] = "open"
    /\ pc'[s] = "idle"

\* no stored message has the id
Unresolved(id) == ~\E m \in messages : m.id = id

\* C26: a media announcement without a message id, or with an id that
\* resolves to no stored message, queues no event for any connection, sends
\* nothing to any socket, changes no table and leaves the connection open.
C26_UnresolvedAnnounceDropped ==
    [][\A s \in Sessions :
          /\ \A f \in AnnounceFrames :
                (ReceiveBegin(s, f) /\ f.message_id = 0) => DroppedBy(s)
          /\ (FetchMessage(s) /\ Unresolved(loc[s].message_id)) => DroppedBy(s)]_vars

\* C27: a frame that is not JSON, or is JSON but not an object, or whose
\* type is not text, media_uploaded or typing, changes no table, queues and
\* sends nothing, and leaves the connection open for later frames.
C27_MalformedInputDropped ==
    [][\A s \in Sessions, f \in BrokenFrames :
          ReceiveBegin(s, f) => DroppedBy(s)]_vars

\* -------------------------------------------------------------- outsiders
\* the tables and the presence entries are as before
NoTrace == UNCHANGED <<messages, reactions, reads, is_online, last_seen>>

\* the HTTP request was answered with an error
Refusal == ~resp'.success /\ resp'.error # ""

\* the user is no participant of the room now
Outside(r) == r \in Rooms /\ Outsider \notin participants[r]

\* the room of the message, if there is one
RoomOf(id) ==
    IF \E m \in messages : m.id = id
    THEN (CHOOSE m \in messages : m.id = id).chat_room ELSE NoRoom

\* the step begins a request of the user on a room, or on a message of a
\* room, that the user is no participant of
ByOutsider ==
    \/ \E r \in Rooms, c \in OutsiderCursors :
          Outside(r) /\ GetMessagesView(OneRequest, Outsider, r, c)
    \/ \E r \in Rooms, t \in ReadTexts :
          Outside(r) /\ SendMessageView(OneRequest, Outsider, r, t)
    \/ \E r \in Rooms :
          Outside(r) /\ UploadFileView(OneRequest, Outsider, r, OutsiderFile, <<>>)
    \/ \E r \in Rooms, v \in MarkViews :
          Outside(r) /\ MarkBegin(OneRequest, v, Outsider, r)
    \/ \E i \in OutsiderIds :
          Outside(RoomOf(i)) /\ ReactBegin(OneRequest, Outsider, i, OutsiderKind)
    \/ \E i \in OutsiderIds :
          Outside(RoomOf(i)) /\ DeleteMessageView(OneRequest, Outsider, i)

\* the step goes on with a request of the user that names a room, or a
\* message of a room, that the user is no participant of
OutsiderGoesOn ==
    \/ /\ Outside(hreq[OneRequest].room)
       /\ \/ GetMessagesCheck(OneRequest)
          \/ GetMessagesSelect(OneRequest)
          \/ SendCreate(OneRequest)
          \/ UploadCreate(OneRequest)
          \/ DeleteMessageCheck(OneRequest)
          \/ DeleteMessageDelete(OneRequest)
    \/ /\ Outside(req[OneRequest].room)
       /\ \/ ReactCheck(OneRequest)
          \/ ReactRead(OneRequest)
          \/ ReactWrite(OneRequest)
    \/ /\ Outside(mreq[OneRequest].room)
       /\ \/ MarkQuery(OneRequest)
          \/ MarkOne(OneRequest)
          \/ MarkExists(OneRequest)
          \/ MarkLast(OneRequest)

\* no request of the user is in flight after the step
Answered ==
    /\ hreq'[OneRequest].pc = "idle"
    /\ req'[OneRequest].pc = "idle"
    /\ mreq'[OneRequest].pc = "idle"

\* the step handles a frame from the outsider's connection
FrameStep == \E f \in OutsiderFrames : ReceiveBegin(Sender, f)

\* the step goes on with the handling of a frame of the outsider's connection
HandlerStep ==
    \/ SaveMessage(Sender)
    \/ GroupSendText(Sender)
    \/ FetchMessage(Sender)
    \/ GroupSendMedia(Sender)
    \/ GroupSendTyping(Sender)

\* C28: a request or an inbound frame of a user who is not a participant of
\* the room fails, and leaves the messages, the reactions, the read receipts
\* and every user's presence entry as they were.
C28_UnauthorizedLeavesNoTrace ==
    /\ [][ByOutsider => NoTrace /\ (Answered => Refusal)]_vars
    /\ [][OutsiderGoesOn => NoTrace /\ (Answered => Refusal)]_vars
    /\ [][(FrameStep /\ Outsider \notin participants[HubRoom])
            => /\ outcome'[Sender] = "unauthorized"
               /\ NoTrace /\ UNCHANGED <<inbox, out>>]_vars
    /\ [][(HandlerStep /\ Outsider \notin participants[HubRoom])
            => NoTrace /\ UNCHANGED <<inbox, out>>]_vars

\* ------------------------------------------------------- deleted targets
\* the request was answered with not found
NotFound == ~resp'.success /\ resp'.error = "Message not found"

\* C29: a react or delete request whose target message is deleted, be it
\* before the request looks it up or between its lookup and its write, is
\* answered with not found, writes no reaction and raises nothing that the
\* view does not handle.
C29_DeletedTargetNotFound ==
    /\ [][\A u \in Users, i \in TargetIds, k \in Kinds :
            (ReactBegin(OneRequest, u, i, k) /\ Unresolved(i))
              => NotFound /\ reactions' = reactions]_vars
    /\ [][(ReactCheck(OneRequest) /\ Unresolved(req[OneRequest].target))
              => NotFound /\ reactions' = reactions]_vars
    /\ [][(ReactWrite(OneRequest) /\ Unresolved(req[OneRequest].target))
              => /\ NotFound
                 /\ reactions' = reactions
                 /\ req'[OneRequest].result # "integrity_error"]_vars
    /\ [][\A q \in Requests :
            (DeleteMessageView(q, "u2", 2) /\ Unresolved(2))
              => NotFound /\ messages' = messages]_vars
    /\ [][\A q \in Requests :
            (DeleteMessageDelete(q) /\ Unresolved(hreq[q].target))
              => NotFound /\ messages' = messages]_vars

\* ---------------------------------------------------------------- sync order
\* entry a comes before entry b in the order of (created_at, id)
Precedes(a, b) ==
    \/ a.created_at.t < b.created_at.t
    \/ a.created_at.t = b.created_at.t /\ a.id < b.id

\* C30: a pull lists its messages in ascending created_at, and messages of
\* equal created_at in ascending order of their identifiers.
C30_DeterministicSyncOrder ==
    (resp.view = "get_messages" /\ resp.success) =>
        \A i, j \in 1..Len(resp.messages) :
            i < j => Precedes(resp.messages[i], resp.messages[j])

\* ------------------------------------------------------- order per session
\* the positions in the socket output of connection o of the message id
FramesOf(o, id) ==
    {p \in 1..Len(out[o]) : out[o][p].type = "message" /\ out[o][p].message.id = id}

\* C31: the text frames of one connection are handled one after the other:
\* when the message of a frame is stored, the messages of the connection's
\* earlier frames have been published; publications of one connection follow
\* the order in which their messages were stored, with created_at never
\* decreasing; and a connection subscribed at both publications that was
\* sent the later message was sent the earlier one before it.
C31_InOrderPerSession ==
    /\ [][\A s \in Sessions :
            SaveMessage(s) =>
                \A m \in messages :
                    m.sender = suser[s] =>
                        \E i \in 1..Len(published) :
                            published[i].id = m.id /\ published[i].by = s]_vars
    /\ [](\A i, j \in 1..Len(published) :
            (i < j /\ published[i].by = published[j].by) =>
                /\ published[i].id < published[j].id
                /\ published[i].created_at <= published[j].created_at
                /\ \A o \in published[i].subscribers \cap published[j].subscribers :
                      \A q \in FramesOf(o, published[j].id) :
                          \E p \in FramesOf(o, published[i].id) : p < q)

\* a connection was sent two messages of one sender, stored at different
\* times, in the order in which they were published
C31_Witness ==
    \E o \in Sessions : \E i, j \in 1..Len(published) :
        /\ i < j /\ published[i].by = published[j].by
        /\ published[i].created_at < published[j].created_at
        /\ FramesOf(o, published[i].id) # {}
        /\ FramesOf(o, published[j].id) # {}

\* ----------------------------------------------------------- media announce
\* the stored row of the message id
RowOf(id) == CHOOSE m \in messages : m.id = id

\* C32: a media announce is fanned out only when the user of the announcing
\* connection is the sender of the message it names.
C32_AnnounceByAuthorOnly ==
    \A i \in 1..Len(published) :
        RowOf(published[i].id).sender = suser[published[i].by]

\* C33: every message frame sent to a connection subscribed to a room
\* describes a message stored in that room.
C33_RoomConfinement ==
    \A o \in Sessions : \A p \in 1..Len(out[o]) :
        out[o][p].type = "message" =>
            RowOf(out[o][p].message.id).chat_room = sroom[o]

\* ------------------------------------------------- presence and connections
\* C34: whoever asks, and whatever time has passed, the answer of
\* get_online_users_view lists every user that holds an open connection.
C34_OpenSessionStaysOnline ==
    [][\A q \in Requests :
          OnlineSelect(q) =>
              \A s \in Sessions :
                  status[s] = "open" => suser[s] \in resp'.online_users]_vars

\* C35: the disconnect handling of a connection that connect() refused
\* (anonymous user, or not a participant of the room) leaves is_online and
\* last_seen of every user as they were.
C35_RejectedConnectKeepsPresence ==
    [][\A s \in Sessions :
          (status[s] = "rejected" /\ (Disconnect(s) \/ DisconnectOffline(s))) =>
              UNCHANGED presenceVars]_vars

\* ------------------------------------------------------------ push delivery
\* C36: a connection that is subscribed to a room when a message is created
\* in it, by a text frame, by send_message_view or by upload_file_view, is
\* eventually sent a message frame for it, whatever the clients do next.
C36_EveryMessagePushed ==
    \A s \in Sessions : \A id \in 1..(MaxMsgs + 1) :
        []((status[s] = "open" /\ nextId = id) =>
              []((\E m \in messages : m.id = id /\ m.chat_room = sroom[s]) =>
                    <>(FramesOf(s, id) # {})))

\* -------------------------------------------------------------- bulk delete
\* every id of the list names a row sent by u in a room u is a participant
\* of, and no id is listed twice
Deletable(u, ids) ==
    /\ \A i \in 1..Len(ids) :
          \E m \in messages :
              m.id = ids[i] /\ m.sender = u /\ u \in participants[m.chat_room]
    /\ \A i, j \in 1..Len(ids) : i # j => ids[i] # ids[j]

\* C37: delete_multiple_messages_view deletes every message of message_ids
\* or none: when an id of the list is missing, not sent by the requester or
\* listed twice (or the body is broken or the list empty), or the requester
\* is not a participant of the room of one of them, the store is unchanged
\* and the answer is an error; otherwise the request deletes exactly the
\* rows named, all of which are the requester's to delete.
C37_BulkDeleteAllOrNothing ==
    /\ [][\A q \in Requests : \A u \in Users : \A b \in BulkLists :
            (DeleteMultipleMessagesView(q, u, b)
                /\ ~(/\ b.json = "object" /\ b.message_ids # <<>>
                     /\ all_found(BulkFound(u, b.message_ids), b.message_ids)))
              => /\ ~resp'.success /\ resp'.error # ""
                 /\ UNCHANGED <<messages, reactions, reads>>]_vars
    /\ [][\A q \in Requests :
            (BulkCheck(q) /\ Ends(q)) =>
                /\ ~resp'.success /\ resp'.error # ""
                /\ UNCHANGED <<messages, reactions, reads>>]_vars
    /\ [][\A q \in Requests :
            BulkDelete(q) =>
                /\ Deletable(hreq[q].user, hreq[q].ids)
                /\ resp'.success
                /\ messages' = {m \in messages : m.id \notin Elems(hreq[q].ids)}]_vars

\* --------------------------------------------------------- private chat rooms
\* C38: once the start_chat_view requests have ended, there is at most one
\* private room for each pair of distinct users, every private room has
\* exactly two participants, and none was made for a user with themselves.
C38_OnePrivateRoomPerPair ==
    (\A q \in Requests : sreq[q].pc = "idle") =>
        /\ \A u, v \in Users :
              u # v =>
                  Cardinality({c \in chatrooms :
                      c.chat_type = "private" /\ c.participants = {u, v}}) <= 1
        /\ \A c \in chatrooms :
              c.chat_type = "private" => Cardinality(c.participants) = 2

====
